---- MODULE Spec2Model ----
(***************************************************************************)
(* Model of the ontosight storage engine (src/ontosight/core/storage):     *)
(* GraphStorage, HypergraphStorage, ListStorage and NodeStorage (Spec,     *)
(* SpecCaller), and of the server's GlobalState singleton and search       *)
(* route (src/ontosight/server), with its threads (SpecServer).            *)
(*                                                                         *)
(* A store is built once by its constructor and then only queried.  The    *)
(* state is the store that was built (`store`), the constructor's inputs   *)
(* (`input`), the last query made (`call`) and what it returned            *)
(* (`result`).                                                             *)
(*                                                                         *)
(* Python objects.  A stored record is a dict {"id", ..., "data": {...}}.  *)
(* The field `obj` of a modelled record says which top-level dict object   *)
(* it is: "stored" is the dict held in the live index, "copy" is a fresh   *)
(* dict made by dict(...).  dict(...) is a shallow copy, so the nested     *)
(* "data" dict (fields label, raw) is shared with the stored record in     *)
(* both cases.  `highlighted` is TRUE when the dict has the key            *)
(* "highlighted" (the code only ever sets it to True).                     *)
(*                                                                         *)
(* Python sets have no order that the code relies on: a value built by     *)
(* iterating a set (sub_nodes, sub_edges, ...) is modelled as a set.       *)
(***************************************************************************)
EXTENDS Integers, Sequences, FiniteSets, TLC

\* The storage engine: the store under test, what it was built from, the
\* query in progress and what it returned.
VARIABLES store, input, call, result

\* The server: the class attribute GlobalState._instance, the owners of
\* GlobalState._lock and of the state locks created so far, the call stack
\* of every thread, the outcome of every thread's last call, and how many
\* calls the worker threads have made.
VARIABLES instance, class_lock, state_locks, stacks, outcome, calls_made

storage_vars == <<store, input, call, result>>

server_vars == <<instance, class_lock, state_locks, stacks, outcome, calls_made>>

vars == <<store, input, call, result,
          instance, class_lock, state_locks, stacks, outcome, calls_made>>

(***************************************************************************)
(* Bounds of the model.                                                    *)
(***************************************************************************)
MaxEdges == 2        \* longest edge_list / hyperedge list given to a constructor
MaxCenters == 2      \* most ids in center_ids, most records given to get_sample_from_data
MaxHops == 2         \* largest hops argument
MaxPage == 3         \* largest page argument
MaxPageSize == 2     \* largest page_size argument
MaxItems == 3        \* longest list given to ListStorage or NodeStorage
MaxNNodes == 3       \* largest n_nodes argument besides the default
MaxCalls == 3        \* calls made by the worker threads, all threads together

(***************************************************************************)
(* Generic helpers.                                                        *)
(***************************************************************************)
Range(s) == {s[i] : i \in DOMAIN s}

Min(a, b) == IF a < b THEN a ELSE b

\* All sequences over S of length at most n.
SeqsUpTo(S, n) == UNION {[1..k -> S] : k \in 0..n}

\* The strictly increasing index sequences into pool, of length at most n,
\* mapped to the pool's elements: one list for every subset of at most n
\* elements of the pool.
SubListsUpTo(pool, n) ==
    {[i \in 1..Len(ix) |-> pool[ix[i]]] :
        ix \in {s \in SeqsUpTo(DOMAIN pool, n) :
                    \A i \in 1..(Len(s) - 1) : s[i] < s[i + 1]}}

\* A Python dict, which keeps insertion order: `keys` is the order in which
\* the keys were first inserted, `at` maps each key to its current value.
EmptyDict == [keys |-> <<>>, at |-> <<>>]

DictHas(d, k) == k \in DOMAIN d.at

\* d[k] = v: a new key goes to the end, an existing key keeps its place.
DictSet(d, k, v) ==
    [keys |-> IF DictHas(d, k) THEN d.keys ELSE Append(d.keys, k),
     at   |-> (k :> v) @@ d.at]

\* list(d.values())
DictValues(d) == [i \in 1..Len(d.keys) |-> d.at[d.keys[i]]]

\* seq[start:end] of Python, for 0 <= start <= end.
Slice(seq, start, end) ==
    LET lo == Min(start, Len(seq))
        hi == Min(end, Len(seq))
    IN  [i \in 1..(hi - lo) |-> seq[lo + i]]

(***************************************************************************)
(* Caller records and identity.                                            *)
(*                                                                         *)
(* A node or item record is [name, v], an edge record is                   *)
(* [rel, source, target], a hyperedge record is [rel, members]; source,    *)
(* target and members are node labels.                                     *)
(***************************************************************************)
RECURSIVE JoinLabels(_)
JoinLabels(labels) ==
    IF labels = <<>> THEN ""
    ELSE Head(labels) \o "," \o JoinLabels(Tail(labels))

\* model_dump() / dict(record) rendered as text: the content of the record.
Serialize(r) ==
    IF "members" \in DOMAIN r THEN "h|" \o r.rel \o "|" \o JoinLabels(r.members)
    ELSE IF "source" \in DOMAIN r THEN "e|" \o r.rel \o "|" \o r.source \o "|" \o r.target
    ELSE "n|" \o r.name \o "|" \o r.v

\* The id of a record is a hash of its content: the same content gives the
\* same id, different content gives a different id.
get_model_id(r) == "#" \o Serialize(r)

\* The extractors the caller hands to the constructors.
node_label_extractor(node) == node.name

edge_label_extractor(edge) == edge.rel

node_name_extractor(node) == node.name

edge_name_extractor(edge) == edge.rel

item_name_extractor(item) == item.name

node_id_extractor(node) == node.name

nodes_in_edge_extractor(edge) ==
    IF "members" \in DOMAIN edge THEN edge.members ELSE <<edge.source, edge.target>>

\* An id that no record of the pools below hashes to.
GhostId == "#ghost"

\* The records a caller may hand to a graph or hypergraph store.  "Z" is a
\* label that no node record carries.
NodePool ==
    << [name |-> "A", v |-> "0"], [name |-> "B", v |-> "0"],
       [name |-> "C", v |-> "0"], [name |-> "D", v |-> "0"],
       [name |-> "A", v |-> "1"] >>

\* A path A-B-C, a second edge between A and B, a self-loop, an edge to an
\* unknown label.
EdgePool ==
    << [rel |-> "e", source |-> "A", target |-> "B"],
       [rel |-> "e", source |-> "B", target |-> "C"],
       [rel |-> "f", source |-> "B", target |-> "A"],
       [rel |-> "e", source |-> "A", target |-> "A"],
       [rel |-> "e", source |-> "A", target |-> "Z"] >>

\* The node list with one record for every label.
FullNodeList == <<NodePool[1], NodePool[2], NodePool[3], NodePool[4]>>

\* The node lists given to GraphStorage and HypergraphStorage: every label,
\* no node, a record given twice, two records with one label.
NodeLists ==
    { FullNodeList,
      <<>>,
      <<NodePool[2], NodePool[1], NodePool[2]>>,
      <<NodePool[1], NodePool[2], NodePool[5]>> }

EdgeLists == SeqsUpTo(Range(EdgePool), MaxEdges)

\* The inputs of GraphStorage: every edge list over the full node list,
\* every other node list with at most one edge, and the path over the full
\* node list.
\* The path A-B, B-C, C-D.
PathEdges ==
    <<EdgePool[1], EdgePool[2], [rel |-> "e", source |-> "C", target |-> "D"]>>

GraphInputs ==
    {in \in NodeLists \X EdgeLists : in[1] = FullNodeList \/ Len(in[2]) <= 1}
        \cup {<<FullNodeList, PathEdges>>}

(***************************************************************************)
(* Stored records.                                                         *)
(***************************************************************************)
\* {"id": id, "data": {"label": label, "raw": raw}}
NodeRecord(id, label, raw) ==
    [id |-> id, label |-> label, raw |-> raw, highlighted |-> FALSE, obj |-> "stored"]

\* {"id": id, "source": s, "target": t, "data": {"label": label, "raw": raw}}
EdgeRecord(id, source, target, label, raw) ==
    [id |-> id, source |-> source, target |-> target, label |-> label, raw |-> raw,
     highlighted |-> FALSE, obj |-> "stored"]

\* No copy at all: the stored dict itself.
ShallowCopy_alias(record) == record

\* dict(record): a fresh top-level dict with the same keys and values.
ShallowCopy(record) == [record EXCEPT !.obj = "copy"]

\* item["highlighted"] = True
SetHighlighted(record) == [record EXCEPT !.highlighted = TRUE]

(***************************************************************************)
(* GraphStorage                                                            *)
(***************************************************************************)
NoStore == [kind |-> "none"]

\* graph.py lines 43-59: the state before the first node is read.
GraphEmpty ==
    [kind |-> "graph", label_to_id |-> <<>>, nodes |-> EmptyDict, deg_node |-> <<>>,
     edges |-> EmptyDict, adjacency |-> <<>>, incident_edges |-> <<>>]

\* One iteration of the node loop.
GraphAddNode(s, node) ==
    LET label   == node_label_extractor(node)
        node_id == get_model_id(node)
    IN  [s EXCEPT !.label_to_id = (label :> node_id) @@ @,
                  !.nodes = DictSet(@, node_id, NodeRecord(node_id, label, node)),
                  !.deg_node = (node_id :> 0) @@ @]

RECURSIVE GraphAddNodes(_, _)
GraphAddNodes(s, node_list) ==
    IF node_list = <<>> THEN s
    ELSE GraphAddNodes(GraphAddNode(s, Head(node_list)), Tail(node_list))

\* adjacency and incident_edges start empty for every node.
GraphInitAdjacency(s) ==
    [s EXCEPT !.adjacency = [n \in DOMAIN s.nodes.at |-> {}],
              !.incident_edges = [n \in DOMAIN s.nodes.at |-> <<>>]]

\* Whether an edge's two labels are both known.
EdgeResolves(s, edge) ==
    LET ends == nodes_in_edge_extractor(edge)
    IN  ends[1] \in DOMAIN s.label_to_id /\ ends[2] \in DOMAIN s.label_to_id

\* Lines 69-89: the edge is stored between the nodes its labels resolved to.
GraphStoreEdge(s, edge, source_id, target_id) ==
    LET edge_label == edge_label_extractor(edge)
        edge_id    == get_model_id(edge)
        deg1 == IF source_id # target_id
                THEN [s.deg_node EXCEPT ![source_id] = @ + 1]
                ELSE s.deg_node
        deg2 == IF source_id # target_id
                THEN [deg1 EXCEPT ![target_id] = @ + 1]
                ELSE deg1
        adj1 == [s.adjacency EXCEPT ![source_id] = @ \cup {target_id}]
        adj2 == [adj1 EXCEPT ![target_id] = @ \cup {source_id}]
        inc1 == [s.incident_edges EXCEPT ![source_id] = Append(@, edge_id)]
        inc2 == [inc1 EXCEPT ![target_id] = Append(@, edge_id)]
    IN  [s EXCEPT !.deg_node = deg2,
                  !.edges = DictSet(@, edge_id,
                               EdgeRecord(edge_id, source_id, target_id, edge_label, edge)),
                  !.adjacency = adj2,
                  !.incident_edges = inc2]

\* An edge loop that stores an edge whose labels do not both resolve, with
\* the labels for endpoints.
GraphAddEdge_keep_dangling(s, edge) ==
    LET ends == nodes_in_edge_extractor(edge)
    IN  IF EdgeResolves(s, edge)
        THEN GraphStoreEdge(s, edge, s.label_to_id[ends[1]], s.label_to_id[ends[2]])
        ELSE [s EXCEPT !.edges = DictSet(@, get_model_id(edge),
                                    EdgeRecord(get_model_id(edge), ends[1], ends[2],
                                               edge_label_extractor(edge), edge))]

\* Lines 61-89: one iteration of the edge loop.
GraphAddEdge(s, edge) ==
    LET ends == nodes_in_edge_extractor(edge)
    IN  IF ~EdgeResolves(s, edge) THEN s
        ELSE GraphStoreEdge(s, edge, s.label_to_id[ends[1]], s.label_to_id[ends[2]])

\* An edge loop that stops at the first edge that does not resolve.
RECURSIVE GraphAddEdges_break(_, _)
GraphAddEdges_break(s, edge_list) ==
    IF edge_list = <<>> THEN s
    ELSE IF ~EdgeResolves(s, Head(edge_list)) THEN s
    ELSE GraphAddEdges_break(GraphAddEdge(s, Head(edge_list)), Tail(edge_list))

RECURSIVE GraphAddEdges(_, _)
GraphAddEdges(s, edge_list) ==
    IF edge_list = <<>> THEN s
    ELSE GraphAddEdges(GraphAddEdge(s, Head(edge_list)), Tail(edge_list))

RECURSIVE SumOver(_, _)
SumOver(f, S) ==
    IF S = {} THEN 0
    ELSE LET x == CHOOSE y \in S : TRUE IN f[x] + SumOver(f, S \ {x})

\* avg_degree is total_degree / len(nodes); the model keeps the two numbers.
Graph_compute_stats(s) ==
    IF Len(s.nodes.keys) = 0
    THEN [total_nodes |-> 0, total_edges |-> 0, avg_degree |-> <<0, 1>>]
    ELSE [total_nodes |-> Len(s.nodes.keys),
          total_edges |-> Len(s.edges.keys),
          avg_degree  |-> <<SumOver(s.deg_node, DOMAIN s.deg_node), Len(s.nodes.keys)>>]

GraphStorage_init(node_list, edge_list) ==
    LET s == GraphAddEdges(GraphInitAdjacency(GraphAddNodes(GraphEmpty, node_list)), edge_list)
    IN  [kind |-> "graph", label_to_id |-> s.label_to_id, nodes |-> s.nodes,
         deg_node |-> s.deg_node, edges |-> s.edges, adjacency |-> s.adjacency,
         incident_edges |-> s.incident_edges, stats |-> Graph_compute_stats(s)]

\* What a query returns when it raises nothing.
Ok(value) == [raised |-> "none"] @@ value

\* What is left of a query that raised.
Raised(exc) == [raised |-> exc]

\* The stored dicts after the query wrote into the dicts `elems` it built:
\* a write into an element that still is the stored dict (obj = "stored")
\* is a write into the index.
WriteBack(d, elems) ==
    [d EXCEPT !.at = [k \in DOMAIN d.at |->
        IF \E e \in elems : e.obj = "stored" /\ e.id = k
        THEN CHOOSE e \in elems : e.obj = "stored" /\ e.id = k
        ELSE d.at[k]]]

\* get_element: the stored dict itself, or None.
Graph_get_element(s, element_id) ==
    IF DictHas(s.nodes, element_id) THEN Ok([value |-> s.nodes.at[element_id]])
    ELSE IF DictHas(s.edges, element_id) THEN Ok([value |-> s.edges.at[element_id]])
    ELSE Ok([value |-> "None"])

Graph_get_details(s, element_id) == Graph_get_element(s, element_id)

\* get_stats: the stats dict held by the store.
Graph_get_stats(s) == Ok([value |-> s.stats @@ [obj |-> "stored"]])

\* A default center drawn among all the nodes, isolated ones included.
Graph_center_choices_any_node(s, center_ids) ==
    IF center_ids # <<>> THEN {center_ids}
    ELSE IF s.nodes.keys = <<>> THEN {<<>>}
    ELSE {<<nid>> : nid \in Range(s.nodes.keys)}

\* A default center drawn whatever center_ids is: the test of line 135 lost.
Graph_center_choices_always_default(s, center_ids) ==
    LET nodes_with_edges == {nid \in Range(s.nodes.keys) : s.deg_node[nid] > 0}
    IN  IF nodes_with_edges = {} THEN {<<>>}
        ELSE {<<nid>> : nid \in nodes_with_edges}

\* Lines 135-138: the center_ids the rest of get_sample works with.  A
\* non-empty argument is kept; otherwise random.choice picks one node with
\* deg_node > 0, or the list stays empty when there is none.
Graph_center_choices(s, center_ids) ==
    IF center_ids # <<>> THEN {center_ids}
    ELSE LET nodes_with_edges == {nid \in Range(s.nodes.keys) : s.deg_node[nid] > 0}
         IN  IF nodes_with_edges = {} THEN {<<>>}
             ELSE {<<nid>> : nid \in nodes_with_edges}

\* Lines 149-159: the ids of center_ids that are node ids.
Graph_center_nodes(s, center_ids) ==
    {id \in Range(center_ids) : DictHas(s.nodes, id)}

\* Lines 153-156: the ids of center_ids that are edge ids (and no node ids).
Graph_center_edges(s, center_ids) ==
    {id \in Range(center_ids) : ~DictHas(s.nodes, id) /\ DictHas(s.edges, id)}

\* Lines 176-180: the node at the other end of an edge reached from node_id.
\* An edge followed from source to target only.
Graph_other_node_target(s, node_id, edge_id) == s.edges.at[edge_id].target

Graph_other_node(s, node_id, edge_id) ==
    IF s.edges.at[edge_id].source = node_id
    THEN s.edges.at[edge_id].target
    ELSE s.edges.at[edge_id].source

\* A traversal that keeps expanding until the frontier is empty, whatever
\* `hops` says: the walk of the whole connected component.
RECURSIVE Graph_bfs_whole_component(_, _, _, _, _)
Graph_bfs_whole_component(s, hops, current_layer, visited_nodes, visited_edges) ==
    IF current_layer = {} THEN [nodes |-> visited_nodes, edges |-> visited_edges]
    ELSE
      LET reached == {<<n, e>> \in current_layer \X Range(s.edges.keys) :
                         /\ e \in Range(s.incident_edges[n])
                         /\ e \notin visited_edges}
          next_layer == {(IF s.edges.at[p[2]].source = p[1]
                          THEN s.edges.at[p[2]].target
                          ELSE s.edges.at[p[2]].source) : p \in reached} \ visited_nodes
      IN  Graph_bfs_whole_component(s, hops, next_layer,
                                    visited_nodes \cup next_layer,
                                    visited_edges \cup {p[2] : p \in reached})

\* A traversal that keeps an edge only when it leads to a node not yet
\* visited: the edges of the search tree.
RECURSIVE Graph_bfs_tree_edges(_, _, _, _, _)
Graph_bfs_tree_edges(s, hops, current_layer, visited_nodes, visited_edges) ==
    IF hops <= 0 THEN [nodes |-> visited_nodes, edges |-> visited_edges]
    ELSE
      LET reached == {<<n, e>> \in current_layer \X Range(s.edges.keys) :
                         /\ e \in Range(s.incident_edges[n])
                         /\ e \notin visited_edges
                         /\ Graph_other_node(s, n, e) \notin visited_nodes}
          next_layer == {Graph_other_node(s, p[1], p[2]) : p \in reached}
      IN  Graph_bfs_tree_edges(s, hops - 1, next_layer,
                               visited_nodes \cup next_layer,
                               visited_edges \cup {p[2] : p \in reached})

\* Lines 167-184: `hops` rounds of the expansion.  Within a round the result
\* does not depend on the order in which the layer is walked: every edge
\* incident to the layer becomes visited, and every node at the other end of
\* such an edge that was not visited joins the next layer.
RECURSIVE Graph_bfs(_, _, _, _, _)
Graph_bfs(s, hops, current_layer, visited_nodes, visited_edges) ==
    IF hops <= 0 THEN [nodes |-> visited_nodes, edges |-> visited_edges]
    ELSE
      LET reached == {<<n, e>> \in current_layer \X Range(s.edges.keys) :
                         /\ e \in Range(s.incident_edges[n])
                         /\ e \notin visited_edges}
          next_layer == {Graph_other_node(s, p[1], p[2]) : p \in reached} \ visited_nodes
      IN  Graph_bfs(s, hops - 1, next_layer,
                    visited_nodes \cup next_layer,
                    visited_edges \cup {p[2] : p \in reached})

\* An element that is highlighted whenever highlight_center is set, in the
\* center set or not.
SampleElement_highlight_all(record, highlight_center, center_set) ==
    IF highlight_center
    THEN [record EXCEPT !.obj = "copy", !.highlighted = TRUE]
    ELSE [record EXCEPT !.obj = "copy"]

\* Lines 187-199: one element of sub_nodes or sub_edges.
SampleElement(record, highlight_center, center_set) ==
    LET data == ShallowCopy(record)
    IN  IF highlight_center /\ record.id \in center_set THEN SetHighlighted(data) ELSE data

\* A get_sample that takes a center edge into the sample without its two
\* endpoints.
Graph_get_sample_edge_without_endpoints(s, center_ids, hops, highlight_center) ==
    LET center_node_ids == IF highlight_center THEN Graph_center_nodes(s, center_ids) ELSE {}
        center_edge_ids == IF highlight_center THEN Graph_center_edges(s, center_ids) ELSE {}
        seed_edges == Graph_center_edges(s, center_ids)
        seed_nodes == Graph_center_nodes(s, center_ids)
        visited == Graph_bfs(s, hops, seed_nodes, seed_nodes, seed_edges)
    IN  IF center_ids = <<>> \/ seed_nodes = {}
        THEN Ok([nodes |-> {}, edges |-> {}])
        ELSE Ok([nodes |-> {SampleElement(s.nodes.at[n], highlight_center, center_node_ids) :
                               n \in visited.nodes},
                 edges |-> {SampleElement(s.edges.at[e], highlight_center, center_edge_ids) :
                               e \in visited.edges}])

\* get_sample from line 140 on, for the center_ids chosen in lines 135-138.
Graph_get_sample(s, center_ids, hops, highlight_center) ==
    LET center_node_ids == IF highlight_center THEN Graph_center_nodes(s, center_ids) ELSE {}
        center_edge_ids == IF highlight_center THEN Graph_center_edges(s, center_ids) ELSE {}
        seed_edges == Graph_center_edges(s, center_ids)
        seed_nodes == Graph_center_nodes(s, center_ids)
                        \cup {s.edges.at[e].source : e \in seed_edges}
                        \cup {s.edges.at[e].target : e \in seed_edges}
        visited == Graph_bfs(s, hops, seed_nodes, seed_nodes, seed_edges)
    IN  IF center_ids = <<>> \/ seed_nodes = {}
        THEN Ok([nodes |-> {}, edges |-> {}])
        ELSE Ok([nodes |-> {SampleElement(s.nodes.at[n], highlight_center, center_node_ids) :
                               n \in visited.nodes},
                 edges |-> {SampleElement(s.edges.at[e], highlight_center, center_edge_ids) :
                               e \in visited.edges}])

\* The store after get_sample wrote "highlighted" into the dicts it returns.
Graph_after_sample(s, res) ==
    [s EXCEPT !.nodes = WriteBack(@, res.nodes), !.edges = WriteBack(@, res.edges)]

\* Lines 273-291: the ids of the records that are in the store.
RECURSIVE ResolvedIds(_, _)
ResolvedIds(d, record_list) ==
    IF record_list = <<>> THEN <<>>
    ELSE (IF DictHas(d, get_model_id(Head(record_list)))
          THEN <<get_model_id(Head(record_list))>> ELSE <<>>)
         \o ResolvedIds(d, Tail(record_list))

Graph_get_sample_from_data(s, node_list, edge_list, hops, highlight_center) ==
    LET all_ids == ResolvedIds(s.nodes, node_list) \o ResolvedIds(s.edges, edge_list)
    IN  IF all_ids # <<>>
        THEN Graph_get_sample(s, all_ids, hops, highlight_center)
        ELSE Ok([nodes |-> {}, edges |-> {}])

\* Lines 215-219 and 238-242: dict(node) with "label" and "type" added.
PageItem(record, type) ==
    ShallowCopy(record) @@ [root_label |-> record.label, type |-> type]

RECURSIVE MapPageItem(_, _)
MapPageItem(records, type) ==
    IF records = <<>> THEN <<>>
    ELSE <<PageItem(Head(records), type)>> \o MapPageItem(Tail(records), type)

\* get_all_nodes_paginated / get_all_edges_paginated over the dict d.
Graph_paginated(d, type, page, page_size) ==
    LET node_items == DictValues(d)
        total == Len(node_items)
        start == page * page_size
        end   == start + page_size
    IN  Ok([items |-> MapPageItem(Slice(node_items, start, end), type),
            page |-> page, page_size |-> page_size, total |-> total,
            has_next |-> end < total])

Graph_get_all_nodes_paginated(s, page, page_size) ==
    Graph_paginated(s.nodes, "node", page, page_size)

Graph_get_all_edges_paginated(s, page, page_size) ==
    Graph_paginated(s.edges, "edge", page, page_size)

(***************************************************************************)
(* HypergraphStorage                                                       *)
(***************************************************************************)
\* {"id": id, "linked_nodes": [...], "data": {"label": label, "raw": raw}}
HyperedgeRecord(id, linked_nodes, label, raw) ==
    [id |-> id, linked_nodes |-> linked_nodes, label |-> label, raw |-> raw,
     highlighted |-> FALSE, obj |-> "stored"]

\* Hyperedges over A..D: the two of the spec's example, one with an unknown
\* label among known ones, one with only an unknown label, one that names a
\* label twice.
HyperedgePool ==
    << [rel |-> "h", members |-> <<"A", "B", "C">>],
       [rel |-> "h", members |-> <<"C", "D">>],
       [rel |-> "h", members |-> <<"D", "Z">>],
       [rel |-> "h", members |-> <<"Z">>],
       [rel |-> "h", members |-> <<"B", "B", "A">>] >>

HyperedgeLists == SeqsUpTo(Range(HyperedgePool), MaxEdges)

\* The inputs of HypergraphStorage, chosen as GraphInputs is.
HypergraphInputs ==
    {in \in NodeLists \X HyperedgeLists : in[1] = FullNodeList \/ Len(in[2]) <= 1}

\* hypergraph.py lines 43-45.
HypergraphEmpty ==
    [kind |-> "hypergraph", label_to_id |-> <<>>, nodes |-> EmptyDict, node_deg |-> <<>>,
     hyperedges |-> EmptyDict, node_to_hyperedges |-> <<>>]

\* Lines 47-53: one iteration of the node loop.
HypergraphAddNode(s, node) ==
    LET label   == node_name_extractor(node)
        node_id == get_model_id(node)
    IN  [s EXCEPT !.label_to_id = (label :> node_id) @@ @,
                  !.node_deg = (node_id :> 0) @@ @,
                  !.nodes = DictSet(@, node_id, NodeRecord(node_id, label, node))]

RECURSIVE HypergraphAddNodes(_, _)
HypergraphAddNodes(s, node_list) ==
    IF node_list = <<>> THEN s
    ELSE HypergraphAddNodes(HypergraphAddNode(s, Head(node_list)), Tail(node_list))

\* Lines 58-61: the degree loop over the labels of one hyperedge.
RECURSIVE HypergraphCountLabels(_, _)
HypergraphCountLabels(s, labels) ==
    IF labels = <<>> THEN s
    ELSE LET node_label == Head(labels)
             counted == IF node_label \in DOMAIN s.label_to_id
                        THEN [s EXCEPT !.node_deg[s.label_to_id[node_label]] = @ + 1]
                        ELSE s
         IN  HypergraphCountLabels(counted, Tail(labels))

\* Lines 56-61: the degree loop over the hyperedges.
RECURSIVE HypergraphCountDegrees(_, _)
HypergraphCountDegrees(s, edge_list) ==
    IF edge_list = <<>> THEN s
    ELSE HypergraphCountDegrees(
             HypergraphCountLabels(s, nodes_in_edge_extractor(Head(edge_list))),
             Tail(edge_list))

\* Line 65.
HypergraphInitMembership(s) ==
    [s EXCEPT !.node_to_hyperedges = [n \in DOMAIN s.nodes.at |-> {}]]

\* Lines 72-74: the ids of the labels that are known, in the order given.
RECURSIVE ResolveLabels(_, _)
ResolveLabels(label_to_id, labels) ==
    IF labels = <<>> THEN <<>>
    ELSE (IF Head(labels) \in DOMAIN label_to_id
          THEN <<label_to_id[Head(labels)]>> ELSE <<>>)
         \o ResolveLabels(label_to_id, Tail(labels))

\* A hyperedge loop without the check of lines 75-77: a hyperedge is stored
\* whatever its labels resolve to.
HypergraphAddHyperedge_keep_empty(s, edge) ==
    LET node_ids == ResolveLabels(s.label_to_id, nodes_in_edge_extractor(edge))
        he_id    == get_model_id(edge)
    IN  [s EXCEPT !.hyperedges = DictSet(@, he_id,
                                    HyperedgeRecord(he_id, node_ids,
                                                    edge_name_extractor(edge), edge)),
                  !.node_to_hyperedges =
                      [n \in DOMAIN @ |-> IF n \in Range(node_ids)
                                          THEN @[n] \cup {he_id} ELSE @[n]]]

\* A hyperedge loop that records the membership of the first linked node
\* only.
HypergraphAddHyperedge_first_member_only(s, edge) ==
    LET node_ids == ResolveLabels(s.label_to_id, nodes_in_edge_extractor(edge))
        he_id    == get_model_id(edge)
    IN  IF node_ids = <<>> THEN s
        ELSE [s EXCEPT !.hyperedges = DictSet(@, he_id,
                                         HyperedgeRecord(he_id, node_ids,
                                                         edge_name_extractor(edge), edge)),
                       !.node_to_hyperedges =
                           [n \in DOMAIN @ |-> IF n = Head(node_ids)
                                               THEN @[n] \cup {he_id} ELSE @[n]]]

\* Lines 67-90: one iteration of the hyperedge loop.
HypergraphAddHyperedge(s, edge) ==
    LET edge_label == edge_name_extractor(edge)
        node_ids   == ResolveLabels(s.label_to_id, nodes_in_edge_extractor(edge))
        he_id      == get_model_id(edge)
    IN  IF node_ids = <<>> THEN s
        ELSE [s EXCEPT !.hyperedges = DictSet(@, he_id,
                                         HyperedgeRecord(he_id, node_ids, edge_label, edge)),
                       !.node_to_hyperedges =
                           [n \in DOMAIN @ |-> IF n \in Range(node_ids)
                                               THEN @[n] \cup {he_id} ELSE @[n]]]

RECURSIVE HypergraphAddHyperedges(_, _)
HypergraphAddHyperedges(s, edge_list) ==
    IF edge_list = <<>> THEN s
    ELSE HypergraphAddHyperedges(HypergraphAddHyperedge(s, Head(edge_list)), Tail(edge_list))

RECURSIVE SumLinked(_)
SumLinked(hyperedge_values) ==
    IF hyperedge_values = <<>> THEN 0
    ELSE Len(Head(hyperedge_values).linked_nodes) + SumLinked(Tail(hyperedge_values))

\* The two averages are kept as numerator and denominator.
Hypergraph_compute_stats(s) ==
    IF Len(s.nodes.keys) = 0
    THEN [total_nodes |-> 0, total_hyperedges |-> 0,
          avg_node_degree |-> <<0, 1>>, avg_hyperedge_degree |-> <<0, 1>>]
    ELSE [total_nodes |-> Len(s.nodes.keys),
          total_hyperedges |-> Len(s.hyperedges.keys),
          avg_node_degree |-> <<SumOver(s.node_deg, DOMAIN s.node_deg), Len(s.nodes.keys)>>,
          avg_hyperedge_degree |->
              IF Len(s.hyperedges.keys) > 0
              THEN <<SumLinked(DictValues(s.hyperedges)), Len(s.hyperedges.keys)>>
              ELSE <<0, 1>>]

HypergraphStorage_init(node_list, edge_list) ==
    LET s == HypergraphAddHyperedges(
                 HypergraphInitMembership(
                     HypergraphCountDegrees(HypergraphAddNodes(HypergraphEmpty, node_list),
                                            edge_list)),
                 edge_list)
    IN  [kind |-> "hypergraph", label_to_id |-> s.label_to_id, nodes |-> s.nodes,
         node_deg |-> s.node_deg, hyperedges |-> s.hyperedges,
         node_to_hyperedges |-> s.node_to_hyperedges,
         stats |-> Hypergraph_compute_stats(s)]

Hypergraph_get_element(s, element_id) ==
    IF DictHas(s.nodes, element_id) THEN Ok([value |-> s.nodes.at[element_id]])
    ELSE IF DictHas(s.hyperedges, element_id) THEN Ok([value |-> s.hyperedges.at[element_id]])
    ELSE Ok([value |-> "None"])

Hypergraph_get_details(s, element_id) == Hypergraph_get_element(s, element_id)

Hypergraph_get_stats(s) == Ok([value |-> s.stats @@ [obj |-> "stored"]])

\* Lines 148-153.
Hypergraph_center_choices(s, center_ids) ==
    IF center_ids # <<>> THEN {center_ids}
    ELSE LET nodes_with_hyperedges == {nid \in Range(s.nodes.keys) : s.node_deg[nid] > 0}
         IN  IF nodes_with_hyperedges = {} THEN {<<>>}
             ELSE {<<nid>> : nid \in nodes_with_hyperedges}

Hypergraph_center_nodes(s, center_ids) ==
    {id \in Range(center_ids) : DictHas(s.nodes, id)}

Hypergraph_center_hyperedges(s, center_ids) ==
    {id \in Range(center_ids) : ~DictHas(s.nodes, id) /\ DictHas(s.hyperedges, id)}

\* A traversal that treats a hyperedge as a pairwise edge: from a hyperedge it
\* adds its first two linked nodes only.
RECURSIVE Hypergraph_bfs_pairwise(_, _, _, _, _)
Hypergraph_bfs_pairwise(s, hops, current_layer, visited_nodes, visited_hyperedges) ==
    IF hops <= 0 THEN [nodes |-> visited_nodes, hyperedges |-> visited_hyperedges]
    ELSE
      LET reached == (UNION {s.node_to_hyperedges[n] : n \in current_layer})
                         \ visited_hyperedges
          next_layer == (UNION {Range(SubSeq(s.hyperedges.at[he].linked_nodes, 1,
                                             Min(2, Len(s.hyperedges.at[he].linked_nodes)))) :
                                   he \in reached})
                            \ visited_nodes
      IN  Hypergraph_bfs_pairwise(s, hops - 1, next_layer,
                                  visited_nodes \cup next_layer,
                                  visited_hyperedges \cup reached)

\* Lines 179-193: `hops` rounds.  As in the graph store, a round's outcome
\* does not depend on the order in which the layer is walked.
RECURSIVE Hypergraph_bfs(_, _, _, _, _)
Hypergraph_bfs(s, hops, current_layer, visited_nodes, visited_hyperedges) ==
    IF hops <= 0 THEN [nodes |-> visited_nodes, hyperedges |-> visited_hyperedges]
    ELSE
      LET reached == (UNION {s.node_to_hyperedges[n] : n \in current_layer})
                         \ visited_hyperedges
          next_layer == (UNION {Range(s.hyperedges.at[he].linked_nodes) : he \in reached})
                            \ visited_nodes
      IN  Hypergraph_bfs(s, hops - 1, next_layer,
                         visited_nodes \cup next_layer,
                         visited_hyperedges \cup reached)

\* min(node_list, key=degree): the first of the entries of least degree.
MinByDegree(node_deg, node_list) ==
    LET i == CHOOSE i \in DOMAIN node_list :
                 /\ \A j \in DOMAIN node_list : node_deg[node_list[i]] <= node_deg[node_list[j]]
                 /\ \A j \in 1..(i - 1) : node_deg[node_list[j]] > node_deg[node_list[i]]
    IN  node_list[i]

\* get_random_id() gives a fresh id at every call; the model names the id by
\* the place of the call.
get_random_id(site) == "random|" \o site

\* Lines 212-225 for one hyperedge of the sample.
Hypergraph_layout_edges(s, sub_hyperedge) ==
    LET node_list == sub_hyperedge.linked_nodes
    IN  IF node_list = <<>> THEN {}
        ELSE LET center_node_id == MinByDegree(s.node_deg, node_list)
             IN  {[id |-> get_random_id(sub_hyperedge.id \o "|" \o ToString(i)),
                   source |-> center_node_id, target |-> node_list[i]] :
                     i \in {j \in DOMAIN node_list : node_list[j] # center_node_id}}

\* get_sample from line 155 on, for the center_ids chosen in lines 148-153.
Hypergraph_get_sample(s, center_ids, hops, highlight_center) ==
    LET center_node_ids == IF highlight_center
                           THEN Hypergraph_center_nodes(s, center_ids) ELSE {}
        center_hyperedge_ids == IF highlight_center
                                THEN Hypergraph_center_hyperedges(s, center_ids) ELSE {}
        seed_hyperedges == Hypergraph_center_hyperedges(s, center_ids)
        seed_nodes == Hypergraph_center_nodes(s, center_ids)
                        \cup UNION {Range(s.hyperedges.at[he].linked_nodes) :
                                        he \in seed_hyperedges}
        visited == Hypergraph_bfs(s, hops, seed_nodes, seed_nodes, seed_hyperedges)
        sub_hyperedges ==
            {SampleElement(s.hyperedges.at[he], highlight_center, center_hyperedge_ids) :
                he \in visited.hyperedges}
    IN  IF seed_nodes = {}
        THEN Ok([nodes |-> {}, edges |-> {}, hyperedges |-> {}])
        ELSE Ok([nodes |-> {SampleElement(s.nodes.at[n], highlight_center,
                                                 center_node_ids) : n \in visited.nodes},
                 edges |-> UNION {Hypergraph_layout_edges(s, he) : he \in sub_hyperedges},
                 hyperedges |-> sub_hyperedges])

Hypergraph_after_sample(s, res) ==
    IF res.raised # "none" THEN s
    ELSE [s EXCEPT !.nodes = WriteBack(@, res.nodes),
                   !.hyperedges = WriteBack(@, res.hyperedges)]

\* Whether every record's id is in the dict.
AllResolved(d, record_list) ==
    \A i \in DOMAIN record_list : DictHas(d, get_model_id(record_list[i]))

\* Lines 301-326.  The warning for a record that is not in the store reads
\* self.node_label_extractor / self.hyperedge_label_extractor, attributes that
\* __init__ (lines 38-40) never sets: formatting the message raises
\* AttributeError.
Hypergraph_get_sample_from_data(s, node_list, hyperedge_list, hops, highlight_center) ==
    LET all_ids == ResolvedIds(s.nodes, node_list) \o ResolvedIds(s.hyperedges, hyperedge_list)
    IN  IF ~AllResolved(s.nodes, node_list) \/ ~AllResolved(s.hyperedges, hyperedge_list)
        THEN Raised("AttributeError")
        ELSE IF all_ids # <<>>
        THEN Hypergraph_get_sample(s, all_ids, hops, highlight_center)
        ELSE Ok([nodes |-> {}, edges |-> {}, hyperedges |-> {}])

Hypergraph_get_all_nodes_paginated(s, page, page_size) ==
    Graph_paginated(s.nodes, "node", page, page_size)

Hypergraph_get_all_hyperedges_paginated(s, page, page_size) ==
    Graph_paginated(s.hyperedges, "hyperedge", page, page_size)

(***************************************************************************)
(* ListStorage                                                             *)
(***************************************************************************)
ItemPool ==
    << [name |-> "x", v |-> "0"], [name |-> "y", v |-> "0"], [name |-> "z", v |-> "0"] >>

ForeignItem == [name |-> "x", v |-> "9"]

ItemLists == SeqsUpTo(Range(ItemPool), MaxItems)

\* The size of the default window of get_sample.
DefaultWindow == 50

ListEmpty == [kind |-> "list", items |-> EmptyDict, item_order |-> <<>>, name_to_id |-> <<>>]

\* list.py lines 34-40: one iteration of the loop.
ListAddItem(s, item) ==
    LET label   == item_name_extractor(item)
        item_id == get_model_id(item)
    IN  [s EXCEPT !.name_to_id = (label :> item_id) @@ @,
                  !.items = DictSet(@, item_id, NodeRecord(item_id, label, item)),
                  !.item_order = Append(@, item_id)]

RECURSIVE ListAddItems(_, _)
ListAddItems(s, item_list) ==
    IF item_list = <<>> THEN s
    ELSE ListAddItems(ListAddItem(s, Head(item_list)), Tail(item_list))

List_compute_stats(s) ==
    IF Len(s.items.keys) = 0 THEN [total_items |-> 0]
    ELSE [total_items |-> Len(s.items.keys),
          fields |-> Cardinality(DOMAIN s.items.at[s.items.keys[1]].raw)]

ListStorage_init(item_list) ==
    LET s == ListAddItems(ListEmpty, item_list)
    IN  [kind |-> "list", items |-> s.items, item_order |-> s.item_order,
         name_to_id |-> s.name_to_id, stats |-> List_compute_stats(s)]

\* self.items.get(element_id)
List_get_element(s, element_id) ==
    IF DictHas(s.items, element_id) THEN Ok([value |-> s.items.at[element_id]])
    ELSE Ok([value |-> "None"])

List_get_details(s, element_id) == List_get_element(s, element_id)

List_get_stats(s) == Ok([value |-> s.stats @@ [obj |-> "stored"]])

\* Copies taken in the order of the store, of the items whose id is among ids.
ListCopies_store_order(s, ids) ==
    LET Wanted(item_id) == item_id \in Range(ids)
        kept == SelectSeq(s.item_order, Wanted)
    IN  [i \in DOMAIN kept |-> ShallowCopy(s.items.at[kept[i]])]

\* [dict(self.items[item_id]) for item_id in ids if item_id in self.items]
RECURSIVE ListCopies(_, _)
ListCopies(s, ids) ==
    IF ids = <<>> THEN <<>>
    ELSE (IF DictHas(s.items, Head(ids))
          THEN <<ShallowCopy(s.items.at[Head(ids)])>> ELSE <<>>)
         \o ListCopies(s, Tail(ids))

\* Lines 97-100.
ListHighlight(items_sample, highlight_center, center_id_set) ==
    [i \in DOMAIN items_sample |->
        IF highlight_center /\ items_sample[i].id \in center_id_set
        THEN SetHighlighted(items_sample[i]) ELSE items_sample[i]]

List_get_sample(s, center_ids, hops, highlight_center) ==
    LET center_id_set == Range(center_ids)
        sample_size == Min(DefaultWindow, Len(s.item_order))
        items_sample == IF center_ids = <<>>
                        THEN ListCopies(s, SubSeq(s.item_order, 1, sample_size))
                        ELSE ListCopies(s, center_ids)
    IN  Ok([items |-> ListHighlight(items_sample, highlight_center, center_id_set)])

List_after_sample(s, res) == [s EXCEPT !.items = WriteBack(@, Range(res.items))]

\* Lines 107-118: the stored dicts themselves, sliced.
List_get_all_items_paginated(s, page, page_size) ==
    LET item_objects == [i \in DOMAIN s.item_order |-> s.items.at[s.item_order[i]]]
        total == Len(item_objects)
        start == page * page_size
        end   == start + page_size
    IN  Ok([items |-> Slice(item_objects, start, end), page |-> page,
            page_size |-> page_size, total |-> total, has_next |-> end < total])

List_get_sample_from_data(s, data_list, hops, highlight_center) ==
    List_get_sample(s, ResolvedIds(s.items, data_list), hops, highlight_center)

(***************************************************************************)
(* NodeStorage                                                             *)
(***************************************************************************)
NodeStorePool ==
    << [name |-> "x1", v |-> "0"], [name |-> "x2", v |-> "0"], [name |-> "x3", v |-> "0"] >>

NodeStoreLists == SeqsUpTo(Range(NodeStorePool), MaxItems)

\* The default of n_nodes.
DefaultNNodes == 10

NodeEmpty == [kind |-> "node", nodes |-> EmptyDict]

\* node.py lines 44-48: one iteration of the loop.
NodeAddNode(s, node) ==
    LET node_id == node_id_extractor(node)
        label   == node_label_extractor(node)
    IN  [s EXCEPT !.nodes = DictSet(@, node_id, NodeRecord(node_id, label, node))]

RECURSIVE NodeAddNodes(_, _)
NodeAddNodes(s, node_list) ==
    IF node_list = <<>> THEN s
    ELSE NodeAddNodes(NodeAddNode(s, Head(node_list)), Tail(node_list))

Node_compute_stats(s) == [total_nodes |-> Len(s.nodes.keys)]

NodeStorage_init(node_list) ==
    LET s == NodeAddNodes(NodeEmpty, node_list)
    IN  [kind |-> "node", nodes |-> s.nodes, stats |-> Node_compute_stats(s)]

Node_get_element(s, element_id) ==
    IF DictHas(s.nodes, element_id) THEN Ok([value |-> s.nodes.at[element_id]])
    ELSE Ok([value |-> "None"])

Node_get_details(s, element_id) == Node_get_element(s, element_id)

Node_get_stats(s) == Ok([value |-> s.stats @@ [obj |-> "stored"]])

\* A fill that draws n_nodes more nodes, the centers already in the result
\* not counted.
Node_result_choices_overfill(s, center_ids, n_nodes) ==
    LET result_ids == {nid \in Range(center_ids) : DictHas(s.nodes, nid)}
        remaining_ids == Range(s.nodes.keys) \ result_ids
    IN  IF Cardinality(result_ids) < n_nodes /\ remaining_ids # {}
        THEN {result_ids \cup sampled_additional :
                 sampled_additional \in
                     {S \in SUBSET remaining_ids :
                         Cardinality(S) = Min(Cardinality(remaining_ids), n_nodes)}}
        ELSE {result_ids}

\* Lines 89-103: the sets result_ids can be.  random.sample draws
\* min(len(remaining_ids), needed) ids of remaining_ids, without replacement.
Node_result_choices(s, center_ids, n_nodes) ==
    LET center_node_ids == Range(center_ids)
        result_ids == {nid \in center_node_ids : DictHas(s.nodes, nid)}
        remaining_ids == Range(s.nodes.keys) \ result_ids
        needed == n_nodes - Cardinality(result_ids)
    IN  IF Cardinality(result_ids) < n_nodes /\ remaining_ids # {}
        THEN {result_ids \cup sampled_additional :
                 sampled_additional \in
                     {S \in SUBSET remaining_ids :
                         Cardinality(S) = Min(Cardinality(remaining_ids), needed)}}
        ELSE {result_ids}

\* Lines 105-118, for the result_ids chosen above.
Node_get_sample(s, result_ids, center_ids, highlight_center) ==
    Ok([nodes |-> {SampleElement(s.nodes.at[n], highlight_center, Range(center_ids)) :
                      n \in result_ids}])

Node_after_sample(s, res) == [s EXCEPT !.nodes = WriteBack(@, res.nodes)]

\* Line 137: the ids of the records, resolved or not.
Node_extract_ids(node_list) == [i \in DOMAIN node_list |-> node_id_extractor(node_list[i])]

Node_get_all_nodes_paginated(s, page, page_size) ==
    Graph_paginated(s.nodes, "node", page, page_size)

(***************************************************************************)
(* The state machine.                                                      *)
(*                                                                         *)
(* `call` is the query in progress and `result` what it returned; Return   *)
(* is the caller dropping the returned value, after which the next query   *)
(* can be made.                                                            *)
(***************************************************************************)
\* The threads of the server: the one that imports the module, and the
\* workers.
Workers == {"t1", "t2"}

Threads == {"main"} \cup Workers

\* The empty dict of callbacks.
NoCallbacks == [name \in {} |-> "none"]

\* GlobalState._instance is None.
NoInstance ==
    [created |-> FALSE, id |-> 0, initialized |-> FALSE, state_lock |-> 0,
     callbacks |-> NoCallbacks, visualization_data |-> {}, context |-> {}]

NoOutcome == [op |-> "none", raised |-> "none", invoked |-> 0, self |-> 0]

Init ==
    /\ store = NoStore
    /\ input = [node_list |-> <<>>, edge_list |-> <<>>]
    /\ call = [op |-> "none"]
    /\ result = Ok([value |-> "None"])
    /\ instance = NoInstance
    /\ class_lock = "free"
    /\ state_locks = <<>>
    /\ stacks = [t \in Threads |-> <<>>]
    /\ outcome = [t \in Threads |-> NoOutcome]
    /\ calls_made = 0

Idle == call.op = "none"

Return ==
    /\ ~Idle
    /\ call' = [op |-> "none"]
    /\ result' = Ok([value |-> "None"])
    /\ UNCHANGED <<store, input>>
    /\ UNCHANGED server_vars

\* --- GraphStorage ---
\* The ids a caller may ask about: those of the store, and one unknown id.
GraphIdPool(s) == s.nodes.keys \o s.edges.keys \o <<GhostId>>

\* Records for get_sample_from_data: those the store was built from, one
\* node record and one edge record it was not built from.
ForeignNode == [name |-> "A", v |-> "9"]

ForeignEdge == [rel |-> "g", source |-> "A", target |-> "B"]

RECURSIVE Distinct(_)
Distinct(seq) ==
    IF seq = <<>> THEN <<>>
    ELSE LET rest == Distinct(SubSeq(seq, 1, Len(seq) - 1))
         IN  IF seq[Len(seq)] \in Range(rest) THEN rest ELSE Append(rest, seq[Len(seq)])

NodeDataPool == Distinct(input.node_list) \o <<ForeignNode>>

EdgeDataPool == Distinct(input.edge_list) \o <<ForeignEdge>>

NewGraphStorage ==
    /\ store.kind = "none"
    /\ \E in \in GraphInputs :
          /\ store' = GraphStorage_init(in[1], in[2])
          /\ input' = [node_list |-> in[1], edge_list |-> in[2]]
    /\ call' = [op |-> "__init__"]
    /\ result' = Ok([value |-> "None"])
    /\ UNCHANGED server_vars

GraphGetElement ==
    /\ store.kind = "graph" /\ Idle
    /\ \E element_id \in Range(GraphIdPool(store)), op \in {"get_element", "get_details"} :
          /\ call' = [op |-> op, element_id |-> element_id]
          /\ result' = IF op = "get_element"
                       THEN Graph_get_element(store, element_id)
                       ELSE Graph_get_details(store, element_id)
    /\ UNCHANGED <<store, input>>
    /\ UNCHANGED server_vars

GraphGetStats ==
    /\ store.kind = "graph" /\ Idle
    /\ call' = [op |-> "get_stats"]
    /\ result' = Graph_get_stats(store)
    /\ UNCHANGED <<store, input>>
    /\ UNCHANGED server_vars

GraphGetSample ==
    /\ store.kind = "graph" /\ Idle
    /\ \E center_ids \in SubListsUpTo(GraphIdPool(store), MaxCenters),
          hops \in 0..MaxHops, highlight_center \in BOOLEAN :
          \E centers \in Graph_center_choices(store, center_ids) :
             LET res == Graph_get_sample(store, centers, hops, highlight_center)
             IN  /\ call' = [op |-> "get_sample", center_ids |-> center_ids,
                             centers |-> centers, hops |-> hops,
                             highlight_center |-> highlight_center]
                 /\ result' = res
                 /\ store' = Graph_after_sample(store, res)
    /\ UNCHANGED input
    /\ UNCHANGED server_vars

GraphGetSampleFromData ==
    /\ store.kind = "graph" /\ Idle
    /\ \E node_list \in SubListsUpTo(NodeDataPool, MaxCenters),
          edge_list \in SubListsUpTo(EdgeDataPool, MaxCenters),
          hops \in 0..MaxHops, highlight_center \in BOOLEAN :
          /\ Len(node_list) + Len(edge_list) <= MaxCenters
          /\ LET res == Graph_get_sample_from_data(store, node_list, edge_list,
                                                   hops, highlight_center)
             IN  /\ call' = [op |-> "get_sample_from_data", node_list |-> node_list,
                             edge_list |-> edge_list, hops |-> hops,
                             highlight_center |-> highlight_center]
                 /\ result' = res
                 /\ store' = Graph_after_sample(store, res)
    /\ UNCHANGED input
    /\ UNCHANGED server_vars

GraphGetAllPaginated ==
    /\ store.kind = "graph" /\ Idle
    /\ \E page \in 0..MaxPage, page_size \in 1..MaxPageSize,
          op \in {"get_all_nodes_paginated", "get_all_edges_paginated"} :
          /\ call' = [op |-> op, page |-> page, page_size |-> page_size]
          /\ result' = IF op = "get_all_nodes_paginated"
                       THEN Graph_get_all_nodes_paginated(store, page, page_size)
                       ELSE Graph_get_all_edges_paginated(store, page, page_size)
    /\ UNCHANGED <<store, input>>
    /\ UNCHANGED server_vars

\* --- HypergraphStorage ---
HypergraphIdPool(s) == s.nodes.keys \o s.hyperedges.keys \o <<GhostId>>

ForeignHyperedge == [rel |-> "g", members |-> <<"A", "B">>]

HyperedgeDataPool == Distinct(input.edge_list) \o <<ForeignHyperedge>>

NewHypergraphStorage ==
    /\ store.kind = "none"
    /\ \E in \in HypergraphInputs :
          /\ store' = HypergraphStorage_init(in[1], in[2])
          /\ input' = [node_list |-> in[1], edge_list |-> in[2]]
    /\ call' = [op |-> "__init__"]
    /\ result' = Ok([value |-> "None"])
    /\ UNCHANGED server_vars

HypergraphGetElement ==
    /\ store.kind = "hypergraph" /\ Idle
    /\ \E element_id \in Range(HypergraphIdPool(store)),
          op \in {"get_element", "get_details"} :
          /\ call' = [op |-> op, element_id |-> element_id]
          /\ result' = IF op = "get_element"
                       THEN Hypergraph_get_element(store, element_id)
                       ELSE Hypergraph_get_details(store, element_id)
    /\ UNCHANGED <<store, input>>
    /\ UNCHANGED server_vars

HypergraphGetStats ==
    /\ store.kind = "hypergraph" /\ Idle
    /\ call' = [op |-> "get_stats"]
    /\ result' = Hypergraph_get_stats(store)
    /\ UNCHANGED <<store, input>>
    /\ UNCHANGED server_vars

HypergraphGetSample ==
    /\ store.kind = "hypergraph" /\ Idle
    /\ \E center_ids \in SubListsUpTo(HypergraphIdPool(store), MaxCenters),
          hops \in 0..MaxHops, highlight_center \in BOOLEAN :
          \E centers \in Hypergraph_center_choices(store, center_ids) :
             LET res == Hypergraph_get_sample(store, centers, hops, highlight_center)
             IN  /\ call' = [op |-> "get_sample", center_ids |-> center_ids,
                             centers |-> centers, hops |-> hops,
                             highlight_center |-> highlight_center]
                 /\ result' = res
                 /\ store' = Hypergraph_after_sample(store, res)
    /\ UNCHANGED input
    /\ UNCHANGED server_vars

HypergraphGetSampleFromData ==
    /\ store.kind = "hypergraph" /\ Idle
    /\ \E node_list \in SubListsUpTo(NodeDataPool, MaxCenters),
          hyperedge_list \in SubListsUpTo(HyperedgeDataPool, MaxCenters),
          hops \in 0..MaxHops, highlight_center \in BOOLEAN :
          /\ Len(node_list) + Len(hyperedge_list) <= MaxCenters
          /\ LET res == Hypergraph_get_sample_from_data(store, node_list, hyperedge_list,
                                                        hops, highlight_center)
             IN  /\ call' = [op |-> "get_sample_from_data", node_list |-> node_list,
                             edge_list |-> hyperedge_list, hops |-> hops,
                             highlight_center |-> highlight_center]
                 /\ result' = res
                 /\ store' = Hypergraph_after_sample(store, res)
    /\ UNCHANGED input
    /\ UNCHANGED server_vars

HypergraphGetAllPaginated ==
    /\ store.kind = "hypergraph" /\ Idle
    /\ \E page \in 0..MaxPage, page_size \in 1..MaxPageSize,
          op \in {"get_all_nodes_paginated", "get_all_hyperedges_paginated"} :
          /\ call' = [op |-> op, page |-> page, page_size |-> page_size]
          /\ result' = IF op = "get_all_nodes_paginated"
                       THEN Hypergraph_get_all_nodes_paginated(store, page, page_size)
                       ELSE Hypergraph_get_all_hyperedges_paginated(store, page, page_size)
    /\ UNCHANGED <<store, input>>
    /\ UNCHANGED server_vars

\* --- ListStorage ---
ListIdPool(s) == Range(s.items.keys) \cup {GhostId}

NewListStorage ==
    /\ store.kind = "none"
    /\ \E item_list \in ItemLists :
          /\ store' = ListStorage_init(item_list)
          /\ input' = [node_list |-> item_list, edge_list |-> <<>>]
    /\ call' = [op |-> "__init__"]
    /\ result' = Ok([value |-> "None"])
    /\ UNCHANGED server_vars

ListGetElement ==
    /\ store.kind = "list" /\ Idle
    /\ \E element_id \in ListIdPool(store), op \in {"get_element", "get_details"} :
          /\ call' = [op |-> op, element_id |-> element_id]
          /\ result' = IF op = "get_element"
                       THEN List_get_element(store, element_id)
                       ELSE List_get_details(store, element_id)
    /\ UNCHANGED <<store, input>>
    /\ UNCHANGED server_vars

ListGetStats ==
    /\ store.kind = "list" /\ Idle
    /\ call' = [op |-> "get_stats"]
    /\ result' = List_get_stats(store)
    /\ UNCHANGED <<store, input>>
    /\ UNCHANGED server_vars

\* hops is ignored by the list store: the calls leave it at its default.
ListGetSample ==
    /\ store.kind = "list" /\ Idle
    /\ \E center_ids \in SeqsUpTo(ListIdPool(store), MaxCenters),
          highlight_center \in BOOLEAN :
          LET res == List_get_sample(store, center_ids, 2, highlight_center)
          IN  /\ call' = [op |-> "get_sample", center_ids |-> center_ids,
                          centers |-> center_ids, hops |-> 2,
                          highlight_center |-> highlight_center]
              /\ result' = res
              /\ store' = List_after_sample(store, res)
    /\ UNCHANGED input
    /\ UNCHANGED server_vars

ListGetSampleFromData ==
    /\ store.kind = "list" /\ Idle
    /\ \E data_list \in SeqsUpTo(Range(ItemPool) \cup {ForeignItem}, MaxCenters),
          highlight_center \in BOOLEAN :
          LET res == List_get_sample_from_data(store, data_list, 2, highlight_center)
          IN  /\ call' = [op |-> "get_sample_from_data", node_list |-> data_list,
                          edge_list |-> <<>>, hops |-> 2,
                          highlight_center |-> highlight_center]
              /\ result' = res
              /\ store' = List_after_sample(store, res)
    /\ UNCHANGED input
    /\ UNCHANGED server_vars

ListGetAllPaginated ==
    /\ store.kind = "list" /\ Idle
    /\ \E page \in 0..MaxPage, page_size \in 1..MaxPageSize :
          /\ call' = [op |-> "get_all_items_paginated", page |-> page,
                      page_size |-> page_size]
          /\ result' = List_get_all_items_paginated(store, page, page_size)
    /\ UNCHANGED <<store, input>>
    /\ UNCHANGED server_vars

\* --- NodeStorage ---
NodeIdPool(s) == s.nodes.keys \o <<GhostId>>

ForeignStoreNode == [name |-> "x9", v |-> "0"]

NewNodeStorage ==
    /\ store.kind = "none"
    /\ \E node_list \in NodeStoreLists :
          /\ store' = NodeStorage_init(node_list)
          /\ input' = [node_list |-> node_list, edge_list |-> <<>>]
    /\ call' = [op |-> "__init__"]
    /\ result' = Ok([value |-> "None"])
    /\ UNCHANGED server_vars

NodeGetElement ==
    /\ store.kind = "node" /\ Idle
    /\ \E element_id \in Range(NodeIdPool(store)), op \in {"get_element", "get_details"} :
          /\ call' = [op |-> op, element_id |-> element_id]
          /\ result' = IF op = "get_element"
                       THEN Node_get_element(store, element_id)
                       ELSE Node_get_details(store, element_id)
    /\ UNCHANGED <<store, input>>
    /\ UNCHANGED server_vars

NodeGetStats ==
    /\ store.kind = "node" /\ Idle
    /\ call' = [op |-> "get_stats"]
    /\ result' = Node_get_stats(store)
    /\ UNCHANGED <<store, input>>
    /\ UNCHANGED server_vars

NodeGetSample ==
    /\ store.kind = "node" /\ Idle
    /\ \E center_ids \in SubListsUpTo(NodeIdPool(store), MaxCenters),
          n_nodes \in (0..MaxNNodes) \cup {DefaultNNodes},
          highlight_center \in BOOLEAN :
          \E result_ids \in Node_result_choices(store, center_ids, n_nodes) :
             LET res == Node_get_sample(store, result_ids, center_ids, highlight_center)
             IN  /\ call' = [op |-> "get_sample", center_ids |-> center_ids,
                             centers |-> center_ids, n_nodes |-> n_nodes,
                             highlight_center |-> highlight_center]
                 /\ result' = res
                 /\ store' = Node_after_sample(store, res)
    /\ UNCHANGED input
    /\ UNCHANGED server_vars

\* node.py lines 136-138: get_sample with the ids of the records and the
\* default n_nodes.
NodeGetSampleFromData ==
    /\ store.kind = "node" /\ Idle
    /\ \E node_list \in SubListsUpTo(NodeStorePool \o <<ForeignStoreNode>>, MaxCenters),
          highlight_center \in BOOLEAN :
          LET center_ids == Node_extract_ids(node_list)
          IN  \E result_ids \in Node_result_choices(store, center_ids, DefaultNNodes) :
                 LET res == Node_get_sample(store, result_ids, center_ids, highlight_center)
                 IN  /\ call' = [op |-> "get_sample_from_data", node_list |-> node_list,
                                 edge_list |-> <<>>, n_nodes |-> DefaultNNodes,
                                 highlight_center |-> highlight_center]
                     /\ result' = res
                     /\ store' = Node_after_sample(store, res)
    /\ UNCHANGED input
    /\ UNCHANGED server_vars

NodeGetAllPaginated ==
    /\ store.kind = "node" /\ Idle
    /\ \E page \in 0..MaxPage, page_size \in 1..MaxPageSize :
          /\ call' = [op |-> "get_all_nodes_paginated", page |-> page,
                      page_size |-> page_size]
          /\ result' = Node_get_all_nodes_paginated(store, page, page_size)
    /\ UNCHANGED <<store, input>>
    /\ UNCHANGED server_vars

Next ==
    \/ NewGraphStorage
    \/ NewHypergraphStorage
    \/ NewListStorage
    \/ NewNodeStorage
    \/ Return
    \/ GraphGetElement
    \/ GraphGetStats
    \/ GraphGetSample
    \/ GraphGetSampleFromData
    \/ GraphGetAllPaginated
    \/ HypergraphGetElement
    \/ HypergraphGetStats
    \/ HypergraphGetSample
    \/ HypergraphGetSampleFromData
    \/ HypergraphGetAllPaginated
    \/ ListGetElement
    \/ ListGetStats
    \/ ListGetSample
    \/ ListGetSampleFromData
    \/ ListGetAllPaginated
    \/ NodeGetElement
    \/ NodeGetStats
    \/ NodeGetSample
    \/ NodeGetSampleFromData
    \/ NodeGetAllPaginated

Spec == Init /\ [][Next]_vars

(***************************************************************************)
(* The caller writing into a returned dict.                                *)
(*                                                                         *)
(* A returned dict that is the stored dict (obj = "stored") is the same    *)
(* object as the one in the index: a write into it is a write into the     *)
(* index.  dict(record) copies the top level only: the nested "data" dict  *)
(* (label, raw) of a copy is the one the index holds.                      *)
(***************************************************************************)
ElementDicts == {"nodes", "edges", "hyperedges", "items"}

\* The store as __init__ built it from the input.
Constructed ==
    CASE store.kind = "graph" -> GraphStorage_init(input.node_list, input.edge_list)
      [] store.kind = "hypergraph" ->
            HypergraphStorage_init(input.node_list, input.edge_list)
      [] store.kind = "list" -> ListStorage_init(input.node_list)
      [] store.kind = "node" -> NodeStorage_init(input.node_list)
      [] OTHER -> NoStore

StoreHas(s, id) == \E f \in ElementDicts \cap DOMAIN s : DictHas(s[f], id)

\* value["highlighted"] = True ("key") or value["data"]["label"] = "tampered"
\* ("data") on the dict e.
Touch(e, write) ==
    IF write = "data" THEN [e EXCEPT !.label = "tampered"] ELSE SetHighlighted(e)

\* The index after a write that reaches the stored dict with this id.
StoreTouch(s, id, write) ==
    [f \in DOMAIN s |->
        IF f \in ElementDicts
        THEN [s[f] EXCEPT !.at = [k \in DOMAIN s[f].at |->
                 IF k = id THEN Touch(s[f].at[k], write) ELSE s[f].at[k]]]
        ELSE s[f]]

\* The dicts of the result a caller can write into: where they are, and for
\* a list the position.
Targets(res) ==
    (IF call.op \in {"get_element", "get_details"} /\ StoreHas(store, call.element_id)
     THEN {[c |-> "value", i |-> 0, e |-> res.value]} ELSE {})
    \cup UNION {{[c |-> k, i |-> 0, e |-> x] : x \in {y \in res[k] : "obj" \in DOMAIN y}} :
                   k \in {"nodes", "edges", "hyperedges"} \cap DOMAIN res}
    \cup (IF "items" \in DOMAIN res
          THEN {[c |-> "items", i |-> j, e |-> res.items[j]] : j \in DOMAIN res.items}
          ELSE {})

\* Whether the write into target t shows in the dict x found at (c, i): x is
\* the target, or the same stored object, or shares the nested data dict.
Shows(t, write, x, c, i) ==
    /\ "obj" \in DOMAIN x
    /\ x.id = t.e.id
    /\ \/ write = "data"
       \/ t.e.obj = "stored" /\ x.obj = "stored"
       \/ c = t.c /\ i = t.i /\ x = t.e

ResultTouch(res, t, write) ==
    [f \in DOMAIN res |->
        IF f = "value" /\ t.c = "value" THEN Touch(res.value, write)
        ELSE IF f \in {"nodes", "edges", "hyperedges"}
        THEN {IF Shows(t, write, x, f, 0) THEN Touch(x, write) ELSE x : x \in res[f]}
        ELSE IF f = "items"
        THEN [j \in DOMAIN res.items |->
                 IF Shows(t, write, res.items[j], f, j)
                 THEN Touch(res.items[j], write) ELSE res.items[j]]
        ELSE res[f]]

\* One write by the caller into a dict a query returned.  The model follows
\* the first write into an index that is still as constructed.
CallerWrites ==
    /\ ~Idle
    /\ result.raised = "none"
    /\ store = Constructed
    /\ \E t \in Targets(result), write \in {"key", "data"} :
          /\ Touch(t.e, write) # t.e
          /\ result' = ResultTouch(result, t, write)
          /\ store' = IF write = "data" \/ t.e.obj = "stored"
                      THEN StoreTouch(store, t.e.id, write) ELSE store
    /\ UNCHANGED <<input, call>>
    /\ UNCHANGED server_vars

NextCaller == Next \/ CallerWrites

SpecCaller == Init /\ [][NextCaller]_vars

(***************************************************************************)
(* GlobalState (server/state.py).  The module creates the singleton when   *)
(* it is imported (line 254), on the importing thread and before any other *)
(* thread can reach the class; the worker threads then call its methods.   *)
(* A thread's call stack holds one frame per call in progress: a callback  *)
(* run by execute_callback may itself call a method of GlobalState.        *)
(***************************************************************************)
\* The callbacks a caller registers: one that returns, one that raises
\* ValueError, and four that call a GlobalState method before they return.
Callables ==
    {"cb_plain", "cb_raise", "cb_register", "cb_set_data", "cb_clear", "cb_execute"}

\* Dicts handed to register_callbacks, as (name, value) pairs in insertion
\* order: a registration of one callback, and registrations with a value
\* that is not callable or an empty name after or before a valid entry.
RegisterInputs ==
    {<< <<"search", cb>> >> : cb \in Callables}
        \cup {<< <<"chat", cb>> >> : cb \in {"cb_plain", "cb_raise"}}
        \cup { << <<"search", "cb_plain">>, <<"chat", "not_callable">> >>,
               << <<"chat", "not_callable">>, <<"search", "cb_plain">> >>,
               << <<"search", "cb_raise">>, <<"", "cb_plain">> >> }

\* Names handed to execute_callback.
CallbackNames == {"search", "chat", "nonexistent"}

\* The methods class GlobalState defines.
GlobalStateMethods ==
    {"__new__", "__init__", "clear", "register_callbacks", "execute_callback",
     "set_visualization_data", "get_visualization_data",
     "get_all_visualization_data", "set_context", "get_context",
     "get_state_summary"}

\* callable(callback)
callable(value) == value \in Callables

\* A frame of a call of a GlobalState method: the line it is at, its
\* argument, the lock it acquired, the callback it looked up, how many
\* times it invoked it and the exception that came out of it.
Frame(op, pc, arg) ==
    [op |-> op, pc |-> pc, arg |-> arg, lock |-> 0, cb |-> "none",
     invoked |-> 0, raised |-> "none"]

Top(t) == stacks[t][Len(stacks[t])]

At(t, op, pc) == stacks[t] # <<>> /\ Top(t).op = op /\ Top(t).pc = pc

SetTop(t, frame) == [stacks EXCEPT ![t][Len(stacks[t])] = frame]

\* `global_state = GlobalState()` of line 254 has run.
Imported == outcome["main"].op = "GlobalState"

\* The call on top of t's stack returns (exc = "none") or raises exc: to the
\* thread's caller when it is the only frame, and otherwise into the
\* callback that made it, which passes an exception on and then returns.
Finish(t, exc) ==
    LET n == Len(stacks[t])
    IN  IF n = 1
        THEN /\ stacks' = [stacks EXCEPT ![t] = <<>>]
             /\ outcome' = [outcome EXCEPT ![t] =
                               [op |-> Top(t).op, raised |-> exc,
                                invoked |-> Top(t).invoked, self |-> instance.id]]
        ELSE /\ stacks' = [stacks EXCEPT ![t] =
                              Append(SubSeq(stacks[t], 1, n - 2),
                                     [stacks[t][n - 1] EXCEPT !.pc = "callback_done",
                                                              !.raised = exc])]
             /\ UNCHANGED outcome

\* A worker thread with nothing in progress makes a call.
Begin(t, frame) ==
    /\ t \in Workers
    /\ Imported
    /\ stacks[t] = <<>>
    /\ calls_made < MaxCalls
    /\ stacks' = [stacks EXCEPT ![t] = <<frame>>]
    /\ outcome' = [outcome EXCEPT ![t] = NoOutcome]
    /\ calls_made' = calls_made + 1
    /\ UNCHANGED <<instance, class_lock, state_locks>>

\* --- GlobalState() ---
\* Line 254: the import of the module constructs the singleton.
ImportModule ==
    /\ ~Imported
    /\ stacks["main"] = <<>>
    /\ stacks' = [stacks EXCEPT !["main"] = <<Frame("GlobalState", "new_check", "none")>>]
    /\ UNCHANGED <<instance, class_lock, state_locks, outcome, calls_made>>
    /\ UNCHANGED storage_vars

CallGlobalState(t) ==
    /\ Begin(t, Frame("GlobalState", "new_check", "none"))
    /\ UNCHANGED storage_vars

\* Line 52: the first test of cls._instance, outside the lock.
NewCheck(t) ==
    /\ At(t, "GlobalState", "new_check")
    /\ stacks' = SetTop(t, [Top(t) EXCEPT !.pc = IF instance.created THEN "init_check"
                                                 ELSE "new_acquire"])
    /\ UNCHANGED <<instance, class_lock, state_locks, outcome, calls_made>>
    /\ UNCHANGED storage_vars

\* Line 53: with cls._lock.
NewAcquire(t) ==
    /\ At(t, "GlobalState", "new_acquire")
    /\ class_lock = "free"
    /\ class_lock' = t
    /\ stacks' = SetTop(t, [Top(t) EXCEPT !.pc = "new_locked"])
    /\ UNCHANGED <<instance, state_locks, outcome, calls_made>>
    /\ UNCHANGED storage_vars

\* Lines 54-57: the second test, the creation, and the end of the with block.
NewLocked(t) ==
    /\ At(t, "GlobalState", "new_locked")
    /\ instance' = IF instance.created THEN instance
                   ELSE [instance EXCEPT !.created = TRUE, !.id = @ + 1,
                                         !.initialized = FALSE]
    /\ class_lock' = "free"
    /\ stacks' = SetTop(t, [Top(t) EXCEPT !.pc = "init_check"])
    /\ UNCHANGED <<state_locks, outcome, calls_made>>
    /\ UNCHANGED storage_vars

\* An __init__ without the test of lines 61-62.
init_returns_early_never(inst) == FALSE

\* Lines 61-62: if self._initialized: return
init_returns_early(inst) == inst.initialized

InitCheck(t) ==
    /\ At(t, "GlobalState", "init_check")
    /\ IF init_returns_early(instance)
       THEN Finish(t, "none")
       ELSE /\ stacks' = SetTop(t, [Top(t) EXCEPT !.pc = "init_64"])
            /\ UNCHANGED outcome
    /\ UNCHANGED <<instance, class_lock, state_locks, calls_made>>
    /\ UNCHANGED storage_vars

\* Line 64.
InitSetInitialized(t) ==
    /\ At(t, "GlobalState", "init_64")
    /\ instance' = [instance EXCEPT !.initialized = TRUE]
    /\ stacks' = SetTop(t, [Top(t) EXCEPT !.pc = "init_65"])
    /\ UNCHANGED <<class_lock, state_locks, outcome, calls_made>>
    /\ UNCHANGED storage_vars

\* Line 65: a new lock object.
InitStateLock(t) ==
    /\ At(t, "GlobalState", "init_65")
    /\ state_locks' = Append(state_locks, "free")
    /\ instance' = [instance EXCEPT !.state_lock = Len(state_locks) + 1]
    /\ stacks' = SetTop(t, [Top(t) EXCEPT !.pc = "init_66"])
    /\ UNCHANGED <<class_lock, outcome, calls_made>>
    /\ UNCHANGED storage_vars

\* Lines 66-70.
InitDicts(t) ==
    /\ At(t, "GlobalState", "init_66")
    /\ instance' = [instance EXCEPT !.callbacks = NoCallbacks,
                                    !.visualization_data = {},
                                    !.context = {}]
    /\ Finish(t, "none")
    /\ UNCHANGED <<class_lock, state_locks, calls_made>>
    /\ UNCHANGED storage_vars

\* --- the methods that take self._state_lock ---
\* with self._state_lock: the thread waits until the lock is free.  The
\* attribute exists once the module is imported.
Acquire(t) ==
    /\ stacks[t] # <<>>
    /\ Top(t).pc = "acquire"
    /\ instance.state_lock # 0
    /\ state_locks[instance.state_lock] = "free"
    /\ state_locks' = [state_locks EXCEPT ![instance.state_lock] = t]
    /\ stacks' = SetTop(t, [Top(t) EXCEPT !.pc = "locked", !.lock = instance.state_lock])
    /\ UNCHANGED <<instance, class_lock, outcome, calls_made>>
    /\ UNCHANGED storage_vars

\* The end of a with block: the lock the frame acquired is released.
Released(t) == [state_locks EXCEPT ![Top(t).lock] = "free"]

CallRegisterCallbacks(t) ==
    /\ \E callbacks \in RegisterInputs :
          Begin(t, Frame("register_callbacks", "acquire", callbacks))
    /\ UNCHANGED storage_vars

\* Lines 98-106: the loop over callbacks.items(), up to the entry that
\* raises.
RECURSIVE register_loop(_, _)
register_loop(registered, items) ==
    IF items = <<>> THEN [callbacks |-> registered, raised |-> "none"]
    ELSE LET name     == Head(items)[1]
             callback == Head(items)[2]
         IN  IF name = "" THEN [callbacks |-> registered, raised |-> "ValueError"]
             ELSE IF ~callable(callback)
             THEN [callbacks |-> registered, raised |-> "TypeError"]
             ELSE register_loop((name :> callback) @@ registered, Tail(items))

\* Lines 97-108, the body of the with block.
RegisterCallbacks(t) ==
    /\ At(t, "register_callbacks", "locked")
    /\ LET done == register_loop(instance.callbacks, Top(t).arg)
       IN  /\ instance' = [instance EXCEPT !.callbacks = done.callbacks]
           /\ Finish(t, done.raised)
    /\ state_locks' = Released(t)
    /\ UNCHANGED <<class_lock, calls_made>>
    /\ UNCHANGED storage_vars

CallSetVisualizationData(t) ==
    /\ Begin(t, Frame("set_visualization_data", "acquire", "nodes"))
    /\ UNCHANGED storage_vars

\* Lines 167-169.
SetVisualizationData(t) ==
    /\ At(t, "set_visualization_data", "locked")
    /\ instance' = [instance EXCEPT !.visualization_data = @ \cup {Top(t).arg}]
    /\ Finish(t, "none")
    /\ state_locks' = Released(t)
    /\ UNCHANGED <<class_lock, calls_made>>
    /\ UNCHANGED storage_vars

CallSetContext(t) ==
    /\ Begin(t, Frame("set_context", "acquire", "theme"))
    /\ UNCHANGED storage_vars

\* Lines 209-211.
SetContext(t) ==
    /\ At(t, "set_context", "locked")
    /\ instance' = [instance EXCEPT !.context = @ \cup {Top(t).arg}]
    /\ Finish(t, "none")
    /\ state_locks' = Released(t)
    /\ UNCHANGED <<class_lock, calls_made>>
    /\ UNCHANGED storage_vars

CallClear(t) ==
    /\ Begin(t, Frame("clear", "acquire", "none"))
    /\ UNCHANGED storage_vars

\* Lines 232-236 (the definition of lines 72-78 is replaced by this one).
Clear(t) ==
    /\ At(t, "clear", "locked")
    /\ instance' = [instance EXCEPT !.callbacks = NoCallbacks,
                                    !.visualization_data = {},
                                    !.context = {}]
    /\ Finish(t, "none")
    /\ state_locks' = Released(t)
    /\ UNCHANGED <<class_lock, calls_made>>
    /\ UNCHANGED storage_vars

\* --- execute_callback ---
CallExecuteCallback(t) ==
    /\ \E callback_name \in CallbackNames :
          Begin(t, Frame("execute_callback", "acquire", callback_name))
    /\ UNCHANGED storage_vars

\* An execute_callback that keeps the lock while the callback runs.
lock_after_lookup_held(locks, lock, t) == locks

\* Line 139 to line 141: the with block ends before the callback is called.
lock_after_lookup(locks, lock, t) == [locks EXCEPT ![lock] = "free"]

\* Lines 130-139: the lookup under the lock.
LookupCallback(t) ==
    /\ At(t, "execute_callback", "locked")
    /\ IF Top(t).arg \notin DOMAIN instance.callbacks
       THEN /\ state_locks' = Released(t)
            /\ Finish(t, "KeyError")
       ELSE /\ state_locks' = lock_after_lookup(state_locks, Top(t).lock, t)
            /\ stacks' = SetTop(t, [Top(t) EXCEPT !.pc = "invoke",
                                                  !.cb = instance.callbacks[Top(t).arg]])
            /\ UNCHANGED outcome
    /\ UNCHANGED <<instance, class_lock, calls_made>>
    /\ UNCHANGED storage_vars

\* What a callback calls before it returns, if anything.
CallbackCalls(cb) ==
    CASE cb = "cb_register" ->
            <<Frame("register_callbacks", "acquire", << <<"chat", "cb_plain">> >>)>>
      [] cb = "cb_set_data" -> <<Frame("set_visualization_data", "acquire", "edges")>>
      [] cb = "cb_clear" -> <<Frame("clear", "acquire", "none")>>
      [] cb = "cb_execute" -> <<Frame("execute_callback", "acquire", "chat")>>
      [] OTHER -> <<>>

\* Line 146: result = callback(*args, **kwargs).
InvokeCallback(t) ==
    /\ At(t, "execute_callback", "invoke")
    /\ LET running == [Top(t) EXCEPT !.invoked = @ + 1]
       IN  stacks' =
             IF CallbackCalls(running.cb) # <<>>
             THEN [stacks EXCEPT ![t] =
                      SubSeq(stacks[t], 1, Len(stacks[t]) - 1)
                          \o <<[running EXCEPT !.pc = "in_callback"]>>
                          \o CallbackCalls(running.cb)]
             ELSE SetTop(t, [running EXCEPT
                                !.pc = "callback_done",
                                !.raised = IF running.cb = "cb_raise"
                                           THEN "ValueError" ELSE "none"])
    /\ UNCHANGED <<instance, class_lock, state_locks, outcome, calls_made>>
    /\ UNCHANGED storage_vars

\* Lines 147-152: the result is returned, an exception is logged and raised
\* again.
ReturnFromCallback(t) ==
    /\ At(t, "execute_callback", "callback_done")
    /\ Finish(t, Top(t).raised)
    /\ UNCHANGED <<instance, class_lock, state_locks, calls_made>>
    /\ UNCHANGED storage_vars

\* --- POST /api/search (server/routes/search.py) ---
\* Query strings, as sequences of characters.
Queries ==
    { <<>>, <<" ", " ">>, <<"\t">>, <<"t", "e", "s", "t">>, <<" ", "q", " ">> }

Whitespace == {" ", "\t", "\n"}

RECURSIVE lstrip(_)
lstrip(s) == IF s # <<>> /\ Head(s) \in Whitespace THEN lstrip(Tail(s)) ELSE s

Reverse(s) == [i \in 1..Len(s) |-> s[Len(s) + 1 - i]]

\* str.strip()
strip(s) == Reverse(lstrip(Reverse(lstrip(s))))

\* The status of the response of search(request).  An HTTPException gives
\* its own status; any other exception that leaves the function is answered
\* with 500 by the framework.
\*   lines 36-37: a blank query raises HTTPException(400);
\*   line 39: global_state.get_visualization_type() is outside the try
\*            block, and GlobalState defines no such method: AttributeError;
\*   line 42: execute_callback raises KeyError for a name that is not
\*            registered, which `except Exception` (104-106) turns into
\*            HTTPException(500);
\*   lines 46, 63, 83: global_state.get_storage() is not defined either, and
\*            the AttributeError is turned into HTTPException(500).
search(callbacks, query) ==
    IF strip(query) = <<>> THEN 400
    ELSE IF "get_visualization_type" \notin GlobalStateMethods THEN 500
    ELSE IF "search" \notin DOMAIN callbacks THEN 500
    ELSE IF "get_storage" \notin GlobalStateMethods THEN 500
    ELSE 200

\* One request, answered by a worker thread.
PostSearch(t) ==
    /\ t \in Workers
    /\ Imported
    /\ stacks[t] = <<>>
    /\ calls_made < MaxCalls
    /\ \E query \in Queries :
          outcome' = [outcome EXCEPT ![t] =
                         [op |-> "POST /api/search", raised |-> "none", invoked |-> 0,
                          self |-> instance.id, query |-> query,
                          registered |-> "search" \in DOMAIN instance.callbacks,
                          status |-> search(instance.callbacks, query)]]
    /\ calls_made' = calls_made + 1
    /\ UNCHANGED <<instance, class_lock, state_locks, stacks>>
    /\ UNCHANGED storage_vars

\* A step of a call in progress on thread t.
Step(t) ==
    \/ NewCheck(t)
    \/ NewAcquire(t)
    \/ NewLocked(t)
    \/ InitCheck(t)
    \/ InitSetInitialized(t)
    \/ InitStateLock(t)
    \/ InitDicts(t)
    \/ Acquire(t)
    \/ RegisterCallbacks(t)
    \/ SetVisualizationData(t)
    \/ SetContext(t)
    \/ Clear(t)
    \/ LookupCallback(t)
    \/ InvokeCallback(t)
    \/ ReturnFromCallback(t)

NextServer ==
    \/ ImportModule
    \/ \E t \in Threads :
          \/ CallGlobalState(t)
          \/ CallRegisterCallbacks(t)
          \/ CallExecuteCallback(t)
          \/ CallSetVisualizationData(t)
          \/ CallSetContext(t)
          \/ CallClear(t)
          \/ PostSearch(t)
          \/ Step(t)

SpecServer == Init /\ [][NextServer]_vars

(***************************************************************************)
(* Properties.                                                             *)
(***************************************************************************)
Ids(elems) == {e.id : e \in elems}

IsSample(kind) == store.kind = kind /\ call.op = "get_sample" /\ result.raised = "none"

\* The center-derived node set of a graph store: the center ids that are
\* node ids, and both endpoints of the center ids that are edge ids.
GraphCenterEdges(s, center_ids) == Range(center_ids) \cap Range(s.edges.keys)

GraphCenterDerived(s, center_ids) ==
    (Range(center_ids) \cap Range(s.nodes.keys))
        \cup {s.edges.at[e].source : e \in GraphCenterEdges(s, center_ids)}
        \cup {s.edges.at[e].target : e \in GraphCenterEdges(s, center_ids)}

\* The nodes at most k stored edges away from the set S.
RECURSIVE GraphBall(_, _, _)
GraphBall(s, S, k) ==
    IF k = 0 THEN S
    ELSE LET B == GraphBall(s, S, k - 1)
         IN  B \cup {s.edges.at[e].source : e \in {x \in Range(s.edges.keys) :
                                                      s.edges.at[x].target \in B}}
               \cup {s.edges.at[e].target : e \in {x \in Range(s.edges.keys) :
                                                      s.edges.at[x].source \in B}}

\* C1: GraphStorage.get_sample(center_ids, hops=k) returns no node that is
\* more than k stored edges away from the center-derived node set, and with
\* hops = 0 it returns exactly the center-derived nodes and exactly the center
\* edges.  The centers are the ids get_sample works with: the argument when
\* it is not empty, the default center it picks otherwise.
C1_BfsBounded ==
    IsSample("graph") =>
        LET seeds == GraphCenterDerived(store, call.centers)
        IN  /\ Ids(result.nodes) \subseteq GraphBall(store, seeds, call.hops)
            /\ call.hops = 0 =>
                  /\ Ids(result.nodes) = seeds
                  /\ Ids(result.edges) = GraphCenterEdges(store, call.centers)

\* A sample with hops = 1 that leaves out a node two edges away from the center.
C1_Witness ==
    /\ IsSample("graph")
    /\ call.hops = 1
    /\ call.center_ids # <<>>
    /\ \E n \in Range(store.nodes.keys) :
          /\ n \in GraphBall(store, GraphCenterDerived(store, call.centers), 2)
          /\ n \notin Ids(result.nodes)

\* The nodes reachable from S by at most k steps node -> hyperedge ->
\* member of that hyperedge.
RECURSIVE HypergraphBall(_, _, _)
HypergraphBall(s, S, k) ==
    IF k = 0 THEN S
    ELSE LET B == HypergraphBall(s, S, k - 1)
         IN  B \cup UNION {Range(s.hyperedges.at[he].linked_nodes) :
                              he \in {x \in Range(s.hyperedges.keys) :
                                         Range(s.hyperedges.at[x].linked_nodes) \cap B # {}}}

HypergraphCenterDerived(s, center_ids) ==
    (Range(center_ids) \cap Range(s.nodes.keys))
        \cup UNION {Range(s.hyperedges.at[he].linked_nodes) :
                       he \in Range(center_ids) \cap Range(s.hyperedges.keys)}

\* The hypergraph of the spec's example: hyperedges {A,B,C} and {C,D}.
ExampleHypergraph ==
    /\ store.kind = "hypergraph"
    /\ input.node_list = FullNodeList
    /\ input.edge_list = <<HyperedgePool[1], HyperedgePool[2]>>

IdA == get_model_id(NodePool[1])
IdB == get_model_id(NodePool[2])
IdC == get_model_id(NodePool[3])
IdD == get_model_id(NodePool[4])

\* C2: HypergraphStorage.get_sample(center_ids, hops=k) returns exactly the
\* nodes reachable from the center-derived node set by at most k steps
\* node -> hyperedge -> co-member; in the hypergraph {A,B,C}, {C,D} with
\* center A it returns A, B, C for hops = 1 and A, B, C, D for hops = 2.
C2_HyperedgeExpansion ==
    IsSample("hypergraph") =>
        /\ Ids(result.nodes) =
              HypergraphBall(store, HypergraphCenterDerived(store, call.centers), call.hops)
        /\ (ExampleHypergraph /\ call.centers = <<IdA>> /\ call.hops = 1)
              => Ids(result.nodes) = {IdA, IdB, IdC}
        /\ (ExampleHypergraph /\ call.centers = <<IdA>> /\ call.hops = 2)
              => Ids(result.nodes) = {IdA, IdB, IdC, IdD}

\* The example at hops = 1: D is in the store and not in the sample.
C2_Witness ==
    /\ IsSample("hypergraph")
    /\ ExampleHypergraph
    /\ call.center_ids = <<IdA>>
    /\ call.hops = 1
    /\ IdD \in Range(store.nodes.keys)
    /\ IdD \notin Ids(result.nodes)

\* Whether a returned dict has the key "highlighted" set.
Highlighted(e) == "highlighted" \in DOMAIN e /\ e.highlighted

\* Every element of a sample, whatever key of the result holds it.
SampleElements(res) ==
    (IF "nodes" \in DOMAIN res THEN res.nodes ELSE {})
        \cup (IF "edges" \in DOMAIN res THEN res.edges ELSE {})
        \cup (IF "hyperedges" \in DOMAIN res THEN res.hyperedges ELSE {})
        \cup (IF "items" \in DOMAIN res THEN Range(res.items) ELSE {})

\* C3: in every store, get_sample with a non-empty center_ids and
\* highlight_center = true marks a returned element highlighted if and only
\* if its id is in center_ids.
C3_HighlightExact ==
    (/\ call.op = "get_sample"
     /\ result.raised = "none"
     /\ call.center_ids # <<>>
     /\ call.highlight_center)
        => \A e \in SampleElements(result) :
              Highlighted(e) <=> e.id \in Range(call.center_ids)

\* A highlighted center next to an element that expansion or random fill
\* brought in, which is not highlighted.
C3_Witness ==
    /\ call.op = "get_sample"
    /\ store.kind \in {"graph", "node"}
    /\ call.center_ids # <<>>
    /\ call.highlight_center
    /\ \E e \in SampleElements(result) : Highlighted(e)
    /\ \E e \in SampleElements(result) : ~Highlighted(e)

\* The dicts held in the live index.
StoredRecords(s) ==
    CASE s.kind = "graph" -> Range(DictValues(s.nodes)) \cup Range(DictValues(s.edges))
      [] s.kind = "hypergraph" ->
            Range(DictValues(s.nodes)) \cup Range(DictValues(s.hyperedges))
      [] s.kind = "list" -> Range(DictValues(s.items))
      [] s.kind = "node" -> Range(DictValues(s.nodes))
      [] OTHER -> {}

\* C4: highlighting never changes the store: whatever get_sample and
\* get_sample_from_data calls were made, no stored record has the key
\* "highlighted", and a get_sample with highlight_center = false returns no
\* element that has it.
C4_HighlightLeavesStore ==
    /\ \A r \in StoredRecords(store) : ~Highlighted(r)
    /\ (call.op = "get_sample" /\ result.raised = "none" /\ ~call.highlight_center)
          => \A e \in SampleElements(result) : ~Highlighted(e)

\* A sample with a highlighted element whose stored record is not highlighted.
C4_Witness ==
    /\ call.op \in {"get_sample", "get_sample_from_data"}
    /\ result.raised = "none"
    /\ call.highlight_center
    /\ \E e \in SampleElements(result) :
          /\ Highlighted(e)
          /\ \E r \in StoredRecords(store) : r.id = e.id /\ ~Highlighted(r)

\* C5: every query returns fresh copies, never references into the live
\* index: whatever the caller writes into a returned value, the index stays
\* as it was constructed, so a later query returns what it would have
\* returned without the write.
C5_ReturnsFreshCopies == store = Constructed

\* The labels of the nodes a store was built from.
InputLabels == {node_label_extractor(input.node_list[i]) : i \in DOMAIN input.node_list}

\* The input edges whose two labels are both labels of input nodes.
InputEdgeResolves(edge) ==
    /\ nodes_in_edge_extractor(edge)[1] \in InputLabels
    /\ nodes_in_edge_extractor(edge)[2] \in InputLabels

ResolvingEdges == SelectSeq(input.edge_list, InputEdgeResolves)

\* C6: in a graph store both endpoints of every stored edge are keys of the
\* node index, and adjacency and incident_edges name stored nodes and stored
\* edges only.
C6_NoDanglingEdge ==
    store.kind = "graph" =>
        LET node_ids == Range(store.nodes.keys)
            edge_ids == Range(store.edges.keys)
        IN  /\ \A e \in edge_ids :
                  /\ store.edges.at[e].source \in node_ids
                  /\ store.edges.at[e].target \in node_ids
            /\ DOMAIN store.adjacency = node_ids
            /\ DOMAIN store.incident_edges = node_ids
            /\ \A n \in node_ids :
                  /\ store.adjacency[n] \subseteq node_ids
                  /\ Range(store.incident_edges[n]) \subseteq edge_ids

\* A store built from an edge that resolves and an edge to a label no node has.
C6_Witness ==
    /\ store.kind = "graph"
    /\ store.edges.keys # <<>>
    /\ \E i \in DOMAIN input.edge_list : ~InputEdgeResolves(input.edge_list[i])

\* C7 as stated: the number of stored edges is the number of input edges
\* whose two endpoints resolve.
C7_EdgeCountIsResolvingCount ==
    store.kind = "graph" => Len(store.edges.keys) = Len(ResolvingEdges)

\* C7, amended: construction raises nothing; the stored edges are the input
\* edges whose two endpoints resolve, one per distinct record; and the store
\* is the one built from the input without the edges that do not resolve.
C7_StoredEdgesAreResolvingEdges ==
    store.kind = "graph" =>
        /\ call.op = "__init__" => result.raised = "none"
        /\ Range(store.edges.keys) = {get_model_id(e) : e \in Range(ResolvingEdges)}
        /\ Len(store.edges.keys) = Cardinality(Range(ResolvingEdges))
        /\ store = GraphStorage_init(input.node_list, ResolvingEdges)

\* A store built from an edge that does not resolve followed by one that does.
C7_Witness ==
    /\ store.kind = "graph"
    /\ call.op = "__init__"
    /\ Len(input.edge_list) = 2
    /\ ~InputEdgeResolves(input.edge_list[1])
    /\ InputEdgeResolves(input.edge_list[2])
    /\ Len(store.edges.keys) = 1

\* The labels of a hyperedge that are labels of input nodes.
KnownMembers(edge) ==
    {l \in Range(nodes_in_edge_extractor(edge)) : l \in InputLabels}

\* C8 as stated: a hyperedge that names a label no node has is dropped.
C8_UnknownLabelDropsHyperedge ==
    store.kind = "hypergraph" =>
        \A i \in DOMAIN input.edge_list :
            Range(nodes_in_edge_extractor(input.edge_list[i])) \ InputLabels # {}
                => get_model_id(input.edge_list[i]) \notin Range(store.hyperedges.keys)

\* C8, amended: a hyperedge none of whose labels is the label of a node is
\* dropped, from the hyperedge index and from node_to_hyperedges; a hyperedge
\* with at least one such label is stored, linked to the nodes its known
\* labels resolve to, the unknown labels left out.
C8_UnresolvedHyperedgeDropped ==
    store.kind = "hypergraph" =>
        \A i \in DOMAIN input.edge_list :
            LET edge  == input.edge_list[i]
                he_id == get_model_id(edge)
            IN  IF KnownMembers(edge) = {}
                THEN /\ he_id \notin Range(store.hyperedges.keys)
                     /\ \A n \in DOMAIN store.node_to_hyperedges :
                           he_id \notin store.node_to_hyperedges[n]
                ELSE /\ he_id \in Range(store.hyperedges.keys)
                     /\ Range(store.hyperedges.at[he_id].linked_nodes)
                           = {store.label_to_id[l] : l \in KnownMembers(edge)}
                     /\ \A n \in DOMAIN store.node_to_hyperedges :
                           he_id \in store.node_to_hyperedges[n]
                              <=> n \in Range(store.hyperedges.at[he_id].linked_nodes)

\* A store built from {D, Z} and {Z}: the first is stored with D alone, the
\* second is not stored.
C8_Witness ==
    /\ store.kind = "hypergraph"
    /\ input.node_list = FullNodeList
    /\ input.edge_list = <<HyperedgePool[3], HyperedgePool[4]>>
    /\ store.hyperedges.keys = <<get_model_id(HyperedgePool[3])>>
    /\ store.hyperedges.at[get_model_id(HyperedgePool[3])].linked_nodes = <<IdD>>

\* The ids of the records handed to get_sample_from_data that are in the
\* store, in the order given.
IsStoredId(id) == StoreHas(store, id)

RecordIds(record_list) ==
    [i \in DOMAIN record_list |->
        IF store.kind = "node" THEN node_id_extractor(record_list[i])
        ELSE get_model_id(record_list[i])]

ResolvedRecordIds ==
    SelectSeq(RecordIds(call.node_list) \o RecordIds(call.edge_list), IsStoredId)

\* What get_sample can return for these center ids and the other arguments
\* of the call.
SampleResults(center_ids) ==
    CASE store.kind = "graph" ->
            {Graph_get_sample(store, center_ids, call.hops, call.highlight_center)}
      [] store.kind = "hypergraph" ->
            {Hypergraph_get_sample(store, center_ids, call.hops, call.highlight_center)}
      [] store.kind = "list" ->
            {List_get_sample(store, center_ids, call.hops, call.highlight_center)}
      [] store.kind = "node" ->
            {Node_get_sample(store, result_ids, center_ids, call.highlight_center) :
                result_ids \in Node_result_choices(store, center_ids, call.n_nodes)}

\* C9: get_sample_from_data raises nothing when some of its records are not
\* in the store, and returns what get_sample returns for the ids of the
\* records that are.
C9_FromDataSkipsUnresolved ==
    call.op = "get_sample_from_data" =>
        /\ result.raised = "none"
        /\ ResolvedRecordIds # <<>> => result \in SampleResults(ResolvedRecordIds)

\* The collections a store pages through.
PagedCollections(s) ==
    CASE s.kind = "graph" -> {"nodes", "edges"}
      [] s.kind = "hypergraph" -> {"nodes", "hyperedges"}
      [] s.kind = "list" -> {"items"}
      [] s.kind = "node" -> {"nodes"}
      [] OTHER -> {}

PageOf(s, collection, page, page_size) ==
    CASE s.kind = "graph" /\ collection = "nodes" ->
            Graph_get_all_nodes_paginated(s, page, page_size)
      [] s.kind = "graph" /\ collection = "edges" ->
            Graph_get_all_edges_paginated(s, page, page_size)
      [] s.kind = "hypergraph" /\ collection = "nodes" ->
            Hypergraph_get_all_nodes_paginated(s, page, page_size)
      [] s.kind = "hypergraph" /\ collection = "hyperedges" ->
            Hypergraph_get_all_hyperedges_paginated(s, page, page_size)
      [] s.kind = "list" -> List_get_all_items_paginated(s, page, page_size)
      [] s.kind = "node" -> Node_get_all_nodes_paginated(s, page, page_size)

\* The pages from `page` on, up to and including the first one whose
\* has_next is false.
RECURSIVE WalkPages(_, _, _, _)
WalkPages(s, collection, page, page_size) ==
    LET p == PageOf(s, collection, page, page_size)
    IN  IF p.has_next THEN <<p>> \o WalkPages(s, collection, page + 1, page_size)
        ELSE <<p>>

RECURSIVE ItemIds(_)
ItemIds(pages) ==
    IF pages = <<>> THEN <<>>
    ELSE [i \in DOMAIN Head(pages).items |-> Head(pages).items[i].id] \o ItemIds(Tail(pages))

\* C10: for any page_size > 0, the pages 0, 1, ... up to the first one whose
\* has_next is false hold every stored element once, in insertion order;
\* total is the number of stored elements on every page; and has_next is
\* false on the last page only.
C10_PaginationComplete ==
    \A collection \in PagedCollections(store), page_size \in 1..MaxPageSize :
        LET pages == WalkPages(store, collection, 0, page_size)
        IN  /\ ItemIds(pages) = store[collection].keys
            /\ \A i \in DOMAIN pages :
                  /\ pages[i].total = Len(store[collection].keys)
                  /\ pages[i].has_next <=> i < Len(pages)

\* Everything get_sample can return for the arguments of the call in
\* progress, over the draws of random.choice and random.sample.
SampleOutcomes ==
    CASE store.kind = "graph" ->
            {Graph_get_sample(store, centers, call.hops, call.highlight_center) :
                centers \in Graph_center_choices(store, call.center_ids)}
      [] store.kind = "hypergraph" ->
            {Hypergraph_get_sample(store, centers, call.hops, call.highlight_center) :
                centers \in Hypergraph_center_choices(store, call.center_ids)}
      [] store.kind = "list" ->
            {List_get_sample(store, call.center_ids, call.hops, call.highlight_center)}
      [] store.kind = "node" ->
            {Node_get_sample(store, result_ids, call.center_ids, call.highlight_center) :
                result_ids \in Node_result_choices(store, call.center_ids, call.n_nodes)}

\* The ids of the nodes and of the edges, hyperedges or items of a sample.
\* The layout edges of a hypergraph sample are not elements of the store and
\* get a fresh id at every call: they are left out.
NodeIdsOf(res) == IF "nodes" \in DOMAIN res THEN Ids(res.nodes) ELSE {}

LinkIdsOf(res) ==
    CASE store.kind = "graph" -> Ids(res.edges)
      [] store.kind = "hypergraph" -> Ids(res.hyperedges)
      [] store.kind = "list" -> Ids(Range(res.items))
      [] OTHER -> {}

SameIds(r1, r2) == NodeIdsOf(r1) = NodeIdsOf(r2) /\ LinkIdsOf(r1) = LinkIdsOf(r2)

ValidCenters == Range(call.center_ids) \cap Range(store.nodes.keys)

DegreeCounters(s) == IF s.kind = "graph" THEN s.deg_node ELSE s.node_deg

\* Whether a sample is the empty result shape of its store.
EmptyShape(res) ==
    /\ res.raised = "none"
    /\ res.nodes = {}
    /\ res.edges = {}
    /\ store.kind = "hypergraph" => res.hyperedges = {}

\* C12: get_sample of a graph or hypergraph store with empty center_ids is
\* seeded from exactly one node, whose degree counter is > 0; when no node
\* has a degree counter > 0 it returns the empty result shape and raises
\* nothing.
C12_DefaultCenterHasDegree ==
    (/\ store.kind \in {"graph", "hypergraph"}
     /\ call.op = "get_sample"
     /\ call.center_ids = <<>>)
        => LET connected == {n \in Range(store.nodes.keys) : DegreeCounters(store)[n] > 0}
           IN  /\ result.raised = "none"
               /\ IF connected = {} THEN EmptyShape(result)
                  ELSE /\ Len(call.centers) = 1
                       /\ call.centers[1] \in connected
                       /\ call.centers[1] \in Ids(result.nodes)
                       /\ call.hops = 0 => Ids(result.nodes) = {call.centers[1]}

\* A default center drawn in a store that also has an isolated node.
C12_Witness ==
    /\ store.kind \in {"graph", "hypergraph"}
    /\ call.op = "get_sample"
    /\ call.center_ids = <<>>
    /\ result.nodes # {}
    /\ \E n \in Range(store.nodes.keys) : DegreeCounters(store)[n] = 0

\* C13: with highlight_center = true, get_sample marks highlighted only
\* elements whose id is in the center_ids argument of the call: a graph or
\* hypergraph sample taken with empty center_ids has no highlighted element,
\* the default center included.
C13_HighlightOnlyArgument ==
    (call.op = "get_sample" /\ result.raised = "none")
        => \A e \in SampleElements(result) :
              Highlighted(e) => e.id \in Range(call.center_ids)

Max(a, b) == IF a >= b THEN a ELSE b

\* C14: NodeStorage.get_sample(center_ids, n_nodes) returns every center id
\* that is in the store, only ids of stored nodes, no id twice, and
\* min(total_nodes, max(n_nodes, number of valid center ids)) nodes; with 3
\* stored nodes, one center and n_nodes = 10 it returns the 3 nodes.
C14_NodeSampleSize ==
    IsSample("node") =>
        LET total == Len(store.nodes.keys)
        IN  /\ ValidCenters \subseteq Ids(result.nodes)
            /\ Ids(result.nodes) \subseteq Range(store.nodes.keys)
            /\ Cardinality(result.nodes) = Cardinality(Ids(result.nodes))
            /\ Cardinality(result.nodes)
                  = Min(total, Max(call.n_nodes, Cardinality(ValidCenters)))
            /\ (total = 3 /\ Cardinality(ValidCenters) = 1 /\ call.n_nodes = 10)
                  => Ids(result.nodes) = Range(store.nodes.keys)

\* One valid center, padded by one of the two other stored nodes.
C14_Witness ==
    /\ IsSample("node")
    /\ Len(store.nodes.keys) = 3
    /\ Cardinality(ValidCenters) = 1
    /\ call.n_nodes = 2
    /\ Cardinality(result.nodes) = 2

\* The ids of the items of a list sample, in the order returned.
ItemIdSeq(res) == [i \in DOMAIN res.items |-> res.items[i].id]

\* C15: ListStorage.get_sample with no center_ids returns the first
\* min(50, N) stored items in insertion order, each stored item at most
\* once, none of them highlighted, highlight_center set or not.
C15_DefaultWindow ==
    (IsSample("list") /\ call.center_ids = <<>>) =>
        /\ ItemIdSeq(result)
              = SubSeq(store.items.keys, 1, Min(DefaultWindow, Len(store.items.keys)))
        /\ \A i, j \in DOMAIN result.items :
              result.items[i].id = result.items[j].id => i = j
        /\ \A i \in DOMAIN result.items : ~Highlighted(result.items[i])

\* C16: ListStorage.get_sample with a non-empty center_ids returns the items
\* whose ids were supplied and are in the store, in the order given; unknown
\* ids are skipped, nothing is raised, and no other item is returned.
C16_ListSampleByIds ==
    (store.kind = "list" /\ call.op = "get_sample" /\ call.center_ids # <<>>) =>
        /\ result.raised = "none"
        /\ ItemIdSeq(result) = SelectSeq(call.center_ids, IsStoredId)
        /\ \A i \in DOMAIN result.items :
              /\ result.items[i].label = store.items.at[result.items[i].id].label
              /\ result.items[i].raw = store.items.at[result.items[i].id].raw

\* Two stored items asked for against the order of the store, or an unknown
\* id next to a stored one.
C16_Witness ==
    /\ IsSample("list")
    /\ Len(store.items.keys) >= 2
    /\ \/ call.center_ids = <<store.items.keys[2], store.items.keys[1]>>
       \/ call.center_ids = <<GhostId, store.items.keys[1]>>
    /\ Len(result.items) = Len(SelectSeq(call.center_ids, IsStoredId))

\* How many times x occurs in seq.
Occurrences(seq, x) == Cardinality({i \in DOMAIN seq : seq[i] = x})

IsSelfLoop(edge) == nodes_in_edge_extractor(edge)[1] = nodes_in_edge_extractor(edge)[2]

IsNoSelfLoop(edge) == ~IsSelfLoop(edge)

\* C17: for a self-loop edge A-A of a graph store, the degree counters are
\* what they are without the edge, the edge is stored, its id occurs once in
\* A's incident-edge list, and a sample from A with hops >= 1 holds the edge.
C17_SelfLoop ==
    store.kind = "graph" =>
        \A i \in DOMAIN input.edge_list :
            LET edge == input.edge_list[i]
            IN  (IsSelfLoop(edge) /\ InputEdgeResolves(edge)) =>
                   LET A == store.label_to_id[nodes_in_edge_extractor(edge)[1]]
                       edge_id == get_model_id(edge)
                   IN  /\ store.deg_node
                             = GraphStorage_init(input.node_list,
                                   SelectSeq(input.edge_list, IsNoSelfLoop)).deg_node
                       /\ edge_id \in Range(store.edges.keys)
                       /\ Occurrences(store.incident_edges[A], edge_id) = 1
                       /\ (IsSample("graph") /\ call.hops >= 1 /\ A \in Range(call.centers))
                             => edge_id \in Ids(result.edges)

\* The stored edges between two different nodes that touch node n.
IncidentNonLoops(s, n) ==
    {e \in Range(s.edges.keys) :
        /\ s.edges.at[e].source # s.edges.at[e].target
        /\ n \in {s.edges.at[e].source, s.edges.at[e].target}}

\* C18: in a graph store the degree counter of every node is the number of
\* stored edges that touch it and are not self-loops, so the counters add up
\* to twice the number of stored edges that are not self-loops.
C18_DegreeCountsStoredEdges ==
    store.kind = "graph" =>
        /\ \A n \in Range(store.nodes.keys) :
              store.deg_node[n] = Cardinality(IncidentNonLoops(store, n))
        /\ SumOver(store.deg_node, DOMAIN store.deg_node)
              = 2 * Cardinality({e \in Range(store.edges.keys) :
                                    store.edges.at[e].source # store.edges.at[e].target})

\* C19: in a hypergraph store the degree counter of every node is the number
\* of stored hyperedges that contain the node: node_deg[n] is the size of
\* node_to_hyperedges[n].
C19_DegreeCountsHyperedges ==
    store.kind = "hypergraph" =>
        \A n \in Range(store.nodes.keys) :
            /\ store.node_to_hyperedges[n]
                  = {he \in Range(store.hyperedges.keys) :
                        n \in Range(store.hyperedges.at[he].linked_nodes)}
            /\ store.node_deg[n] = Cardinality(store.node_to_hyperedges[n])

\* The distinct members of a returned hyperedge, and those of them whose
\* degree counter is minimal.
Members(he) == Range(he.linked_nodes)

MinimalMembers(he) ==
    {m \in Members(he) : \A o \in Members(he) : store.node_deg[m] <= store.node_deg[o]}

RECURSIVE StarEdgeCount(_)
StarEdgeCount(hyperedges) ==
    IF hyperedges = {} THEN 0
    ELSE LET he == CHOOSE x \in hyperedges : TRUE
         IN  (Cardinality(Members(he)) - 1) + StarEdgeCount(hyperedges \ {he})

\* C20: the layout edges of a hypergraph sample form one star per returned
\* hyperedge: the hub is a member whose degree counter is minimal among the
\* members, there is one layout edge from the hub to each other distinct
\* member (m - 1 for m distinct members), and there is no other layout edge.
C20_LayoutStar ==
    IsSample("hypergraph") =>
        /\ \A he \in result.hyperedges :
              \E hub \in MinimalMembers(he) :
                 \A m \in Members(he) \ {hub} :
                    \E e \in result.edges : e.source = hub /\ e.target = m
        /\ \A e \in result.edges :
              \E he \in result.hyperedges :
                 /\ e.source \in MinimalMembers(he)
                 /\ e.target \in Members(he) \ {e.source}
        /\ Cardinality(result.edges) = StarEdgeCount(result.hyperedges)

\* The stored edges with an endpoint in the node set S.
EdgesTouching(s, S) ==
    {e \in Range(s.edges.keys) : s.edges.at[e].source \in S \/ s.edges.at[e].target \in S}

\* The nodes at most k - 1 stored edges away from the center-derived set of
\* the call: the nodes the expansion has walked from.  None for k = 0.
WalkedNodes ==
    IF call.hops = 0 THEN {}
    ELSE GraphBall(store, GraphCenterDerived(store, call.centers), call.hops - 1)

\* C21 as stated: a graph sample holds every stored edge whose source and
\* target are both among the returned nodes.
C21_InducedEdges ==
    IsSample("graph") =>
        \A e \in Range(store.edges.keys) :
            (/\ store.edges.at[e].source \in Ids(result.nodes)
             /\ store.edges.at[e].target \in Ids(result.nodes))
                => e \in Ids(result.edges)

\* C21, amended: a graph sample holds every stored edge that has an endpoint
\* less than `hops` edges away from the center-derived node set, and both
\* endpoints of such an edge are among the returned nodes; a stored edge
\* between two returned nodes that is left out joins two nodes that are
\* both exactly `hops` edges away (for hops = 0, two center-derived nodes).
C21_EdgesOfWalkedNodes ==
    IsSample("graph") =>
        /\ \A e \in EdgesTouching(store, WalkedNodes) :
              /\ e \in Ids(result.edges)
              /\ store.edges.at[e].source \in Ids(result.nodes)
              /\ store.edges.at[e].target \in Ids(result.nodes)
        /\ \A e \in Range(store.edges.keys) \ Ids(result.edges) :
              /\ store.edges.at[e].source \notin WalkedNodes
              /\ store.edges.at[e].target \notin WalkedNodes

\* A sample with a walked edge back to a visited node, and a stored edge
\* between two returned nodes that is left out.
C21_Witness ==
    /\ IsSample("graph")
    /\ call.hops >= 1
    /\ Cardinality(Ids(result.edges)) >= 2
    /\ \E e \in Range(store.edges.keys) \ Ids(result.edges) :
          /\ store.edges.at[e].source \in Ids(result.nodes)
          /\ store.edges.at[e].target \in Ids(result.nodes)

IsPath == store.kind = "graph" /\ input.edge_list = PathEdges

EdgeAB == get_model_id(PathEdges[1])
EdgeBC == get_model_id(PathEdges[2])
EdgeCD == get_model_id(PathEdges[3])

\* C24: GraphStorage.get_sample(center_ids, hops=k) returns as nodes the
\* nodes at most k stored edges away from the center-derived node set, and as
\* edges the center edge ids and every stored edge with an endpoint at most
\* k - 1 edges away from it.  On the path A-B, B-C, C-D from center A this is
\* nodes {A, B}, edges {A-B} for k = 1 and nodes {A, B, C}, edges {A-B, B-C}
\* for k = 2.
C24_BfsExact ==
    IsSample("graph") =>
        LET seeds == GraphCenterDerived(store, call.centers)
        IN  /\ Ids(result.nodes) = GraphBall(store, seeds, call.hops)
            /\ Ids(result.edges) = GraphCenterEdges(store, call.centers)
                                      \cup EdgesTouching(store, WalkedNodes)
            /\ (IsPath /\ call.centers = <<IdA>> /\ call.hops = 1)
                  => /\ Ids(result.nodes) = {IdA, IdB}
                     /\ Ids(result.edges) = {EdgeAB}
            /\ (IsPath /\ call.centers = <<IdA>> /\ call.hops = 2)
                  => /\ Ids(result.nodes) = {IdA, IdB, IdC}
                     /\ Ids(result.edges) = {EdgeAB, EdgeBC}

\* The path sampled from A with hops = 2: D and C-D are left out.
C24_Witness ==
    /\ IsSample("graph")
    /\ IsPath
    /\ call.center_ids = <<IdA>>
    /\ call.hops = 2
    /\ IdD \notin Ids(result.nodes)
    /\ EdgeCD \notin Ids(result.edges)

\* C25: in a hypergraph store every stored hyperedge has a non-empty
\* linked_nodes list of ids of stored nodes; node_to_hyperedges has an entry
\* for every stored node, holds ids of stored hyperedges only, and holds h
\* for n exactly when n is in h's linked_nodes; and no input hyperedge whose
\* labels all fail to resolve is among the stored ones.
C25_MembershipIndex ==
    store.kind = "hypergraph" =>
        /\ \A h \in Range(store.hyperedges.keys) :
              /\ store.hyperedges.at[h].linked_nodes # <<>>
              /\ Range(store.hyperedges.at[h].linked_nodes) \subseteq Range(store.nodes.keys)
        /\ DOMAIN store.node_to_hyperedges = Range(store.nodes.keys)
        /\ \A n \in Range(store.nodes.keys) :
              /\ store.node_to_hyperedges[n] \subseteq Range(store.hyperedges.keys)
              /\ \A h \in Range(store.hyperedges.keys) :
                    h \in store.node_to_hyperedges[n]
                       <=> n \in Range(store.hyperedges.at[h].linked_nodes)
        /\ \A i \in DOMAIN input.edge_list :
              ResolveLabels(store.label_to_id, nodes_in_edge_extractor(input.edge_list[i])) = <<>>
                 => get_model_id(input.edge_list[i]) \notin Range(store.hyperedges.keys)

\* A store holding a hyperedge of several nodes, built from an input that
\* also had a hyperedge none of whose labels resolves.
C25_Witness ==
    /\ store.kind = "hypergraph"
    /\ \E h \in Range(store.hyperedges.keys) :
          Cardinality(Range(store.hyperedges.at[h].linked_nodes)) >= 2
    /\ \E i \in DOMAIN input.edge_list :
          /\ nodes_in_edge_extractor(input.edge_list[i]) # <<>>
          /\ KnownMembers(input.edge_list[i]) = {}

\* Whether no two elements of a returned collection carry the same id.
UniqueIds(elems) == \A x, y \in elems : x.id = y.id => x = y

\* C26: a graph sample holds both endpoints of every edge it holds; a
\* hypergraph sample holds every linked node of every hyperedge it holds and
\* both endpoints of every layout edge; and within the nodes, the edges and
\* the hyperedges of a sample no id occurs twice.
C26_SampleClosed ==
    /\ IsSample("graph") =>
          /\ \A e \in result.edges : {e.source, e.target} \subseteq Ids(result.nodes)
          /\ UniqueIds(result.nodes)
          /\ UniqueIds(result.edges)
          /\ Ids(result.nodes) \cap Ids(result.edges) = {}
    /\ IsSample("hypergraph") =>
          /\ \A he \in result.hyperedges : Range(he.linked_nodes) \subseteq Ids(result.nodes)
          /\ \A e \in result.edges : {e.source, e.target} \subseteq Ids(result.nodes)
          /\ UniqueIds(result.nodes)
          /\ UniqueIds(result.edges)
          /\ UniqueIds(result.hyperedges)
          /\ Ids(result.nodes) \cap (Ids(result.edges) \cup Ids(result.hyperedges)) = {}
          /\ Ids(result.edges) \cap Ids(result.hyperedges) = {}

\* A graph sample centred on a node and on an edge that does not touch it,
\* with that edge and both its endpoints among what is returned.
C26_Witness ==
    /\ IsSample("graph")
    /\ \E e \in result.edges :
          /\ e.id \in Graph_center_edges(store, call.centers)
          /\ Graph_center_nodes(store, call.centers) \cap {e.source, e.target} = {}
          /\ Graph_center_nodes(store, call.centers) # {}
          /\ {e.source, e.target} \subseteq Ids(result.nodes)

\* C27: in a list store the insertion-order sequence holds the id of every
\* stored item exactly once and nothing else, so the total of
\* get_all_items_paginated is total_items of get_stats and the number of
\* distinct stored items.
C27_ItemOrderDistinct ==
    store.kind = "list" =>
        /\ Range(store.item_order) = Range(store.items.keys)
        /\ \A id \in Range(store.items.keys) : Occurrences(store.item_order, id) = 1
        /\ \A page_size \in 1..MaxPageSize :
              LET total == List_get_all_items_paginated(store, 0, page_size).total
              IN  /\ total = List_get_stats(store).value.total_items
                  /\ total = Cardinality(Range(store.items.keys))

\* The stored ids get_sample_from_data derives from the records of the call
\* in progress: node records against the node index, edge, hyperedge and
\* item records against theirs.
AnchoredIds ==
    CASE store.kind = "graph" ->
            ResolvedIds(store.nodes, call.node_list) \o ResolvedIds(store.edges, call.edge_list)
      [] store.kind = "hypergraph" ->
            ResolvedIds(store.nodes, call.node_list)
                \o ResolvedIds(store.hyperedges, call.edge_list)
      [] store.kind = "list" -> ResolvedIds(store.items, call.node_list)
      [] OTHER -> <<>>

\* C28: get_sample_from_data of a graph, hypergraph or list store to which
\* no supplied record resolves (none supplied included) raises nothing and
\* returns the empty result shape of the store: no node, edge, hyperedge or
\* item.
C28_NothingResolvedNothingReturned ==
    (/\ store.kind \in {"graph", "hypergraph", "list"}
     /\ call.op = "get_sample_from_data"
     /\ AnchoredIds = <<>>) =>
        /\ result.raised = "none"
        /\ CASE store.kind = "graph" -> result.nodes = {} /\ result.edges = {}
             [] store.kind = "hypergraph" ->
                   result.nodes = {} /\ result.edges = {} /\ result.hyperedges = {}
             [] store.kind = "list" -> result.items = <<>>

\* C28 on list stores alone.
C28_ListOnly ==
    store.kind = "list" => C28_NothingResolvedNothingReturned

\* C28 on graph stores, and on hypergraph stores when no record was supplied.
C28_GraphAndEmptyHypergraph ==
    (store.kind = "graph" \/ (store.kind = "hypergraph" /\ call.op = "get_sample_from_data"
                                 /\ call.node_list = <<>> /\ call.edge_list = <<>>))
        => C28_NothingResolvedNothingReturned

\* The thread t takes a step of a GlobalState() call it has in progress.
ConstructionStep(t) ==
    stacks[t] # <<>> /\ Top(t).op = "GlobalState" /\ stacks'[t] # stacks[t]

\* C22: there is never more than one GlobalState object, every GlobalState()
\* call returns that object, and once the module is imported no step of a
\* GlobalState() call changes the instance: not its initialized flag, not
\* the state lock it refers to, not the callbacks, the visualization data or
\* the context; nor does it create a lock.
C22_Singleton ==
    /\ [](/\ instance.id <= 1
          /\ \A t \in Threads : outcome[t].op = "GlobalState" => outcome[t].self = 1)
    /\ [][\A t \in Threads :
             (Imported /\ ConstructionStep(t)) =>
                 /\ instance' = instance
                 /\ state_locks' = state_locks]_vars

\* One worker has its GlobalState() returned while the other is inside
\* __init__, with a callback registered before.
C22_Witness ==
    \E t, u \in Workers :
        /\ t # u
        /\ outcome[t].op = "GlobalState"
        /\ At(u, "GlobalState", "init_check")
        /\ DOMAIN instance.callbacks # {}

\* C23: POST /api/search answers 400 to a query that is empty or only
\* whitespace, and 404 to any other query when no "search" callback is
\* registered.
C23_SearchStatus ==
    \A t \in Workers :
        outcome[t].op = "POST /api/search" =>
            IF strip(outcome[t].query) = <<>>
            THEN outcome[t].status = 400
            ELSE ~outcome[t].registered => outcome[t].status = 404

\* The part of C23 about blank queries.
C23_BlankQueryIs400 ==
    \A t \in Workers :
        (outcome[t].op = "POST /api/search" /\ strip(outcome[t].query) = <<>>)
            => outcome[t].status = 400

\* C29: a register_callbacks call that raises TypeError or ValueError leaves
\* the registered callbacks as they were when it took the lock.
C29_RegisterAllOrNothing ==
    [][\A t \in Threads :
          (/\ At(t, "register_callbacks", "locked")
           /\ stacks'[t] = <<>>
           /\ outcome'[t].raised \in {"TypeError", "ValueError"})
              => instance'.callbacks = instance.callbacks]_vars

\* A register_callbacks call whose failing entry comes first registers
\* nothing.
C29_FirstEntryFails ==
    [][\A t \in Threads :
          (/\ At(t, "register_callbacks", "locked")
           /\ stacks'[t] = <<>>
           /\ (Top(t).arg[1][1] = "" \/ ~callable(Top(t).arg[1][2])))
              => instance'.callbacks = instance.callbacks]_vars

\* The state locks thread t holds.
HeldBy(t) == {lock \in DOMAIN state_locks : state_locks[lock] = t}

\* C30: a thread holds no state lock while the callback it looked up runs or
\* has just returned or raised, nor after its call has returned or raised;
\* a thread with a call in progress can take a step, or waits for a lock
\* whose holder is another thread that can take a step; an execute_callback
\* has invoked nothing before its lookup is done and has invoked its
\* callback once from then on, and one that returned without invoking
\* anything raised KeyError; the lookup of a registered name goes on to the
\* invocation; and the lookup of a name that is not registered changes
\* nothing of the instance and leaves the lock free.
C30_LockOnlyForLookup ==
    /\ [](\A t \in Threads :
            /\ (stacks[t] # <<>> /\ Top(t).op = "execute_callback"
                    /\ Top(t).pc \in {"invoke", "callback_done"}) => HeldBy(t) = {}
            /\ stacks[t] = <<>> => HeldBy(t) = {}
            /\ stacks[t] # <<>> =>
                  \/ ENABLED Step(t)
                  \/ \E u \in Threads \ {t} :
                        /\ Top(t).pc = "acquire"
                        /\ state_locks[instance.state_lock] = u
                        /\ ENABLED Step(u)
            /\ \A i \in DOMAIN stacks[t] :
                  stacks[t][i].op = "execute_callback" =>
                      stacks[t][i].invoked =
                          IF stacks[t][i].pc \in {"in_callback", "callback_done"}
                          THEN 1 ELSE 0
            /\ outcome[t].op = "execute_callback" =>
                  \/ outcome[t].invoked = 1
                  \/ outcome[t].invoked = 0 /\ outcome[t].raised = "KeyError")
    /\ [][\A t \in Threads :
             (At(t, "execute_callback", "locked") /\ stacks'[t] # stacks[t]) =>
                 IF Top(t).arg \in DOMAIN instance.callbacks
                 THEN Len(stacks'[t]) = Len(stacks[t])
                         /\ stacks'[t][Len(stacks[t])].pc = "invoke"
                 ELSE instance' = instance /\ HeldBy(t)' = {}]_vars

\* One worker's execute_callback has returned from a callback that itself
\* registered a callback, while the other worker's execute_callback is
\* between its lookup and its return.
C30_Witness ==
    \E t, u \in Workers :
        /\ t # u
        /\ outcome[t].op = "execute_callback"
        /\ outcome[t].raised = "none"
        /\ "search" \in DOMAIN instance.callbacks
        /\ instance.callbacks["search"] = "cb_register"
        /\ "chat" \in DOMAIN instance.callbacks
        /\ stacks[u] # <<>>
        /\ stacks[u][1].op = "execute_callback"
        /\ stacks[u][1].pc \in {"invoke", "in_callback", "callback_done"}

====
